---- MODULE Spec2Model ----
(***************************************************************************)
(* Per-call turn-taking and audio relay of the realtime websocket server.  *)
(*                                                                         *)
(* The repository holds several revisions of one program.  Two of them     *)
(* are modelled, each under its own specification over one set of          *)
(* variables:                                                              *)
(*   SpecV11  src/unnamed/part_002 (v11): sentence segmentation, the       *)
(*            sentence queue with its single consumer, barge-in and the    *)
(*            turn flags;                                                  *)
(*   SpecV18  src/server.js (v18, and v19 whose handlers are the same):    *)
(*            single greeting, arming of speech detection, whole-response  *)
(*            synthesis, interest notification, transcript timer.          *)
(*   SpecSeg  the response.text.delta handler of v11 driven with richer    *)
(*            text, for the claims about segmentation alone.               *)
(*                                                                         *)
(* Text is a sequence of one-character strings.  One step of a             *)
(* specification is one run of the event loop: a socket or timer callback  *)
(* up to its first await, or the continuation of an await.                 *)
(*                                                                         *)
(* Every start frame of a telephony connection calls connectToOpenAI, which*)
(* makes a closure and a backend socket of its own: one record of          *)
(* `closures`.  A closure goes on running after a later start frame: its   *)
(* socket, backend messages, timers and synthesis calls are steps of the   *)
(* specification like those of the latest closure.  A handler of a closure *)
(* takes the number j of the closure.                                      *)
(***************************************************************************)
EXTENDS Naturals, Sequences, FiniteSets

(***************************************************************************)
(* Bounds of the model.                                                    *)
(***************************************************************************)
\* longest text accumulated for one response (pendingTextResponse, fullResponse)
MaxText == 2
\* sentences the segmenter may emit during one call
MaxSentences == 3
\* audio chunks one synthesis stream may deliver
MaxChunks == 1
\* largest value of turnCount
MaxTurns == 2
\* transcript entries during one call (v11)
MaxTranscript == 1
\* transcript entries during one call (v18)
MaxTranscript18 == 2
\* session.updated events during one call (v18)
MaxSessionUpdated == 2
\* longest text of one response in SpecSeg and SpecCancel
MaxSegBuf == 4
\* longest text delta in SpecSeg and SpecStream
MaxDelta == 3
\* longest text of one response in SpecStream
MaxStream == 5
\* longest utterance, in characters, in SpecClassify
MaxUtterance == 18

\* non-blank caller utterances transcribed in one call in SpecInterest
MaxUserMessages == 4

\* transcript POSTs awaiting their response at one time in SpecHttp
MaxSaves == 2
\* start frames on one telephony connection
MaxStarts == 2
\* backend and synthesis events after which a repeated start frame is no
\* longer followed
MaxEventsBeforeRestart == 1
\* the same in v11, where the synthesis calls of both closures go on
MaxEventsBeforeRestart11 == 0
\* backend and synthesis events followed after a start frame that is repeated
\* or lacks an id
MaxRestartEvents == 1

(***************************************************************************)
(* Text helpers: String.prototype.trim / includes and the sentence regex.  *)
(***************************************************************************)
Terminals == {".", "!", "?"}

\* the characters String.prototype.trim strips and /\s/ matches (WhiteSpace
\* and LineTerminator of ECMAScript) that a TLA+ string can hold: space, tab,
\* line feed, form feed, carriage return, U+000B, U+00A0, U+1680, U+FEFF
Whitespace == {" ", "\t", "\n", "\f", "\r", "", " ", " ", "﻿"}

RECURSIVE TrimStart(_)
TrimStart(s) ==
  IF s # <<>> /\ Head(s) \in Whitespace THEN TrimStart(Tail(s)) ELSE s

RECURSIVE TrimEnd(_)
TrimEnd(s) ==
  IF s # <<>> /\ s[Len(s)] \in Whitespace
    THEN TrimEnd(SubSeq(s, 1, Len(s) - 1))
    ELSE s

\* String.prototype.trim
Trim(s) == TrimEnd(TrimStart(s))

\* String.prototype.includes for a single character
Includes(s, c) == \E i \in 1..Len(s) : s[i] = c

\* index of the first terminal punctuation mark of s, 0 when there is none
FirstTerminal(s) ==
  IF \E i \in 1..Len(s) : s[i] \in Terminals
    THEN CHOOSE i \in 1..Len(s) :
           /\ s[i] \in Terminals
           /\ \A j \in 1..(i - 1) : s[j] \notin Terminals
    ELSE 0

\* length of the match of /^([^.!?]+[.!?])/ against buf, 0 when it does not
\* match: one or more non-terminal characters and then the first terminal
SentenceMatch(buf) ==
  IF FirstTerminal(buf) >= 2 THEN FirstTerminal(buf) ELSE 0

\* the remainder thrown away instead of retained
SliceRest_Drop(buf, m) == <<>>

\* sentenceBuffer.slice(sentenceMatch[0].length).trim()
SliceRest(buf, m) == Trim(SubSeq(buf, m + 1, Len(buf)))

\* sentenceMatch[1].trim()
CompleteSentence(buf, m) == Trim(SubSeq(buf, 1, m))

VARIABLES
  \* ---- handleTwilioConnection ----
  twilioState,       \* twilioWs.readyState: open, closing (the close frame
                     \* of the telephony side has arrived or the connection
                     \* was lost, and 'close' has not been emitted), closed
  streamSid,         \* "none" until the start frame, then the stream id
                     \* of the latest start frame, "undefined" if absent
  openaiWs,          \* the number of the closure whose socket the openaiWs
                     \* variable holds, 0 while it is null
  transcription,     \* sessionData.transcription, shared by the closures
  telephonyStopped,  \* observer: a stop frame has been handled
  \* ---- the module ----
  activeSessions,    \* keys of the activeSessions map
  USE_ELEVENLABS,    \* the module constant: external synthesis is configured
  \* ---- connectToOpenAI ----
  closures,          \* one record per call of connectToOpenAI, in the order
                     \* of the start frames: its parameters, its socket and
                     \* its closure variables (NewClosure)
  \* ---- what the last step sent ----
  twilioSent,        \* frames sent to the telephony socket by the last step
  openaiSent,        \* messages sent to a backend socket by the last step
  httpSent,          \* POST requests issued by the last step
  emitted,           \* sentences passed to queueSentence by the last step
  ttsFailed,         \* the synthesis call that returned in the last step
                     \* had failed (response not ok, or an exception)
  \* ---- REST calls of v18 and their outcome (SpecHttp) ----
  scriptFetch,       \* fetchScript: idle, pending, loaded, or failed (null)
  scriptAttempts,    \* fetch() calls fetchScript has made
  savesPending,      \* sendTranscriptionToBackend calls awaiting their fetch
  saveOutcome,       \* the call that returned in the last step: how it
                     \* ended and how many fetch() calls it had made
  \* ---- observers of one v11 response (SpecCancel, SpecStream) ----
  cancelSent,        \* why a response.cancel was sent for the response the
                     \* backend is streaming: none, barge-in, or question
  spoken,            \* the sentences passed to queueSentence for it so far
  \* ---- observer of a repeated start frame ----
  sinceStart,        \* backend and synthesis events handled since the latest
                     \* start frame, counted up to MaxEventsBeforeRestart + 1
  \* ---- the classifier applied on its own (SpecClassify) ----
  utterance,         \* the text handed to detectInterest
  verdict            \* <<>>, or the one result detectInterest returned for it

\* the variables of handleTwilioConnection and the registry
handlerVars == <<twilioState, streamSid, openaiWs, activeSessions,
                 telephonyStopped>>
outVars == <<twilioSent, openaiSent, httpSent, emitted>>
classifyVars == <<utterance, verdict>>
httpVars == <<scriptFetch, scriptAttempts, savesPending, saveOutcome>>
histVars == <<cancelSent, spoken>>
restartVars == <<sinceStart>>

\* everything but the classifier's own input and result
callVars == <<handlerVars, closures, transcription, USE_ELEVENLABS, outVars,
              ttsFailed, httpVars, histVars, restartVars>>

vars == <<callVars, classifyVars>>

\* the stream id of the first start frame, and another one
StreamId == "MZ1"

OtherStreamId == "MZ2"

\* the callSid of a start frame that carries one
CallId == "CA1"

\* no sendTranscriptionToBackend call returned in the last step
NoSave == [result |-> "none", attempts |-> 0]

(***************************************************************************)
(* Frames and messages.  A media frame carries the emission index n of the *)
(* sentence it belongs to (0 for audio relayed from the backend) and       *)
(* whether a barge-in was handled while that sentence was in synthesis.    *)
(***************************************************************************)
MediaFrame(n, barged) == [event |-> "media", n |-> n, barged |-> barged]

ClearFrame == [event |-> "clear", n |-> 0, barged |-> FALSE]

\* twilioWs.readyState === WebSocket.OPEN
twilioOpen == twilioState = "open"

\* twilioWs.send guarded by twilioWs.readyState === WebSocket.OPEN
SendTwilio(frame) == IF twilioOpen THEN <<frame>> ELSE <<>>

\* body of the save-transcription POST of v11: one line per entry
FormatTranscript11(t) == [i \in 1..Len(t) |-> <<t[i].role, t[i].text>>]

(***************************************************************************)
(* The closures of connectToOpenAI.  closures[j] is the one the j-th start *)
(* frame made.                                                             *)
(***************************************************************************)
\* the closures made so far, by the number of their start frame
Closures == 1..Len(closures)

\* the number of the latest start frame
Latest == Len(closures)

\* a connectToOpenAI call that has just begun: its parameters, no socket
\* yet, and the closure variables of either revision as they are declared
NewClosure(sid, cs, hasScriptId) ==
  [\* the socket: fetching (connectToOpenAI awaits fetchScript, no socket
   \* yet), or its readyState: connecting, open, closing, closed
   state |-> IF hasScriptId THEN "fetching" ELSE "connecting",
   \* the socket emits 'message' events: from 'open' until the backend's
   \* close frame arrives or the socket is lost
   receiving |-> FALSE,
   \* the 'open' handler has resolved the promise and the start handler
   \* has not yet resumed after its await
   resuming |-> FALSE,
   \* the parameters streamSid and callSid, "undefined" if the frame had none
   sid |-> sid,
   callSid |-> cs,
   \* the constant useElevenLabs of the closure: USE_ELEVENLABS, in v11
   \* unless the script that was fetched turns it off
   useElevenLabs |-> USE_ELEVENLABS,
   \* the textToSpeechElevenLabs calls that have not returned
   inflight |-> {},
   \* v11 closure variables (part_002)
   waitingForUserResponse |-> FALSE,
   userHasSpoken |-> FALSE,
   pendingTextResponse |-> <<>>,
   sentenceBuffer |-> <<>>,
   isProcessingSentence |-> FALSE,
   sentenceQueue |-> <<>>,
   isAISpeaking |-> FALSE,
   turnCount |-> 0,
   \* the setTimeout of the v11 open handler is pending
   greetingTimer |-> FALSE,
   \* observers of v11: between speech_started and speech_stopped;
   \* speech_started handled since the last response.created; sentences
   \* pushed on the queue so far; emission index of the last sentence
   \* handed to synthesis, and of the last one a media frame carried
   callerSpeaking |-> FALSE,
   spokeSinceTurn |-> FALSE,
   nEmitted |-> 0,
   lastSynth |-> 0,
   lastMedia |-> 0,
   \* v18 closure variables (server.js); transcriptionSaveTimer: a timeout
   \* of scheduleTranscriptionSave is pending
   greetingSent |-> FALSE,
   greetingResponseDone |-> FALSE,
   fullResponse |-> <<>>,
   isProcessing |-> FALSE,
   transcriptionSaveTimer |-> FALSE,
   interestNotified |-> FALSE,
   userMessageCount |-> 0,
   \* observers of v18: greeting response.create requests, session.updated
   \* events handled and interest notifications sent so far
   nGreetings |-> 0,
   nSessionUpdated |-> 0,
   nInterest |-> 0]

\* the latest closure; before the first start frame, one without a socket
Cur ==
  IF closures = <<>>
    THEN [NewClosure("none", "none", FALSE) EXCEPT !.state = "none"]
    ELSE closures[Len(closures)]

\* the parameters, the socket and the variables of the latest closure
openaiState == Cur.state

receiving == Cur.receiving

resuming == Cur.resuming

callSid == Cur.callSid

inflight == Cur.inflight

waitingForUserResponse == Cur.waitingForUserResponse

userHasSpoken == Cur.userHasSpoken

pendingTextResponse == Cur.pendingTextResponse

sentenceBuffer == Cur.sentenceBuffer

isProcessingSentence == Cur.isProcessingSentence

sentenceQueue == Cur.sentenceQueue

isAISpeaking == Cur.isAISpeaking

turnCount == Cur.turnCount

greetingTimer == Cur.greetingTimer

callerSpeaking == Cur.callerSpeaking

spokeSinceTurn == Cur.spokeSinceTurn

nEmitted == Cur.nEmitted

lastSynth == Cur.lastSynth

lastMedia == Cur.lastMedia

greetingSent == Cur.greetingSent

greetingResponseDone == Cur.greetingResponseDone

fullResponse == Cur.fullResponse

isProcessing == Cur.isProcessing

transcriptionSaveTimer == Cur.transcriptionSaveTimer

interestNotified == Cur.interestNotified

userMessageCount == Cur.userMessageCount

nGreetings == Cur.nGreetings

nSessionUpdated == Cur.nSessionUpdated

nInterest == Cur.nInterest

\* what one run of a callback of a closure leaves behind: the closure, what
\* it sent, and the entries it pushed on sessionData.transcription
Result(c) ==
  [c |-> c, twilioSent |-> <<>>, openaiSent |-> <<>>, httpSent |-> <<>>,
   emitted |-> <<>>, said |-> <<>>]

\* a callback of closure j runs and leaves result behind; the variables of
\* handleTwilioConnection are out of its reach
Run(j, result) ==
  \E res \in {result} :
    /\ closures' = [closures EXCEPT ![j] = res.c]
    /\ twilioSent' = res.twilioSent
    /\ openaiSent' = res.openaiSent
    /\ httpSent' = res.httpSent
    /\ emitted' = res.emitted
    /\ transcription' = transcription \o res.said
    /\ UNCHANGED handlerVars

\* no start handler is about to resume after `await connectToOpenAI`
Idle == \A i \in Closures : ~closures[i].resuming

(***************************************************************************)
(* v11: the sentence queue and its single consumer, on the closure record. *)
(***************************************************************************)
\* a call of textToSpeechElevenLabs suspended at `await fetch`
StartSynthesis(sentence) ==
  [n |-> sentence.n, text |-> sentence.text, phase |-> "fetch",
   chunks |-> 0, barged |-> FALSE]

RECURSIVE processSentenceQueue(_)
RECURSIVE sentenceDone(_)

\* processSentenceQueue without the busy check of its first line
processSentenceQueue_NoBusyCheck(p) ==
  IF p.sentenceQueue = <<>>
    THEN p
    ELSE LET sentence == Head(p.sentenceQueue)
             p1 == [p EXCEPT !.isProcessingSentence = TRUE,
                             !.isAISpeaking = TRUE,
                             !.sentenceQueue = Tail(@)]
         IN IF Trim(sentence.text) # <<>>
              THEN [p1 EXCEPT !.inflight = @ \cup {StartSynthesis(sentence)},
                              !.lastSynth = sentence.n]
              ELSE sentenceDone(p1)

\* processSentenceQueue taking the newest sentence (pop) instead of the
\* oldest (shift)
processSentenceQueue_Pop(p) ==
  IF p.isProcessingSentence \/ p.sentenceQueue = <<>>
    THEN p
    ELSE LET k == Len(p.sentenceQueue)
             sentence == p.sentenceQueue[k]
             p1 == [p EXCEPT !.isProcessingSentence = TRUE,
                             !.isAISpeaking = TRUE,
                             !.sentenceQueue = SubSeq(@, 1, k - 1)]
         IN IF Trim(sentence.text) # <<>>
              THEN [p1 EXCEPT !.inflight = @ \cup {StartSynthesis(sentence)},
                              !.lastSynth = sentence.n]
              ELSE sentenceDone(p1)

\* processSentenceQueue that, after the await, does not go on to the next
\* queued sentence
sentenceDone_NoContinue(p) ==
  [p EXCEPT !.isProcessingSentence = FALSE,
            !.isAISpeaking = FALSE,
            !.waitingForUserResponse = TRUE]

\* processSentenceQueue up to `await textToSpeechElevenLabs`
processSentenceQueue(p) ==
  IF p.isProcessingSentence \/ p.sentenceQueue = <<>>
    THEN p
    ELSE LET sentence == Head(p.sentenceQueue)
             p1 == [p EXCEPT !.isProcessingSentence = TRUE,
                             !.isAISpeaking = TRUE,
                             !.sentenceQueue = Tail(@)]
         IN IF Trim(sentence.text) # <<>>
              THEN [p1 EXCEPT !.inflight = @ \cup {StartSynthesis(sentence)},
                              !.lastSynth = sentence.n]
              ELSE sentenceDone(p1)

\* processSentenceQueue after the await
sentenceDone(p) ==
  LET p1 == [p EXCEPT !.isProcessingSentence = FALSE]
  IN IF p1.sentenceQueue # <<>>
       THEN processSentenceQueue(p1)
       ELSE [p1 EXCEPT !.isAISpeaking = FALSE,
                       !.waitingForUserResponse = TRUE]

queueSentence(p, sentence) ==
  IF Trim(sentence) # <<>>
    THEN processSentenceQueue(
           [p EXCEPT !.sentenceQueue =
                        Append(@, [text |-> sentence, n |-> p.nEmitted + 1]),
                     !.nEmitted = @ + 1])
    ELSE p

(***************************************************************************)
(* v11: handlers of the backend socket's 'message' event.  One message     *)
(* has one type, so at most one branch of the handler runs.                *)
(***************************************************************************)
\* 'message' events are emitted until the backend's close frame arrives or
\* the socket is lost, also between close() and that moment
Receiving(c) == c.receiving

\* openaiWs.send from a callback of the closure: on a socket that is no
\* longer OPEN the message is dropped without an exception
SendOpenai(c, messages) == IF c.state = "open" THEN messages ELSE <<>>

\* closure j handles one message of its backend socket.  Between the 'open'
\* handler of a socket and the start handler that resumes after it, only
\* messages that came with the handshake of that socket are handled.
Message(j, result) ==
  /\ Receiving(closures[j])
  /\ \A i \in Closures : closures[i].resuming => i = j
  /\ Run(j, result)

\* response.audio.delta with a non-empty delta
OnAudioDelta11(j) ==
  LET c == closures[j]
  IN Message(j,
       IF ~closures[j].useElevenLabs
         THEN [Result([c EXCEPT !.isAISpeaking = TRUE])
                 EXCEPT !.twilioSent = SendTwilio(MediaFrame(0, FALSE))]
         ELSE Result(c))

\* response.text.delta with a non-empty delta
OnTextDelta11(j, delta) ==
  LET c == closures[j]
      buf == c.sentenceBuffer \o delta
      m == SentenceMatch(buf)
      completeSentence == CompleteSentence(buf, m)
      c1 == [c EXCEPT !.pendingTextResponse = @ \o delta]
  IN /\ delta # <<>>
     /\ Message(j,
          IF closures[j].useElevenLabs
            THEN IF m > 0 /\ Len(completeSentence) > 0
                   THEN IF Includes(completeSentence, "?")
                          THEN [Result([queueSentence(c1, completeSentence)
                                          EXCEPT !.sentenceBuffer = <<>>,
                                                 !.turnCount = @ + 1])
                                  EXCEPT !.emitted = <<completeSentence>>,
                                         !.openaiSent =
                                           SendOpenai(c, <<"response.cancel">>)]
                          ELSE [Result([queueSentence(c1, completeSentence)
                                          EXCEPT !.sentenceBuffer =
                                                   SliceRest(buf, m)])
                                  EXCEPT !.emitted = <<completeSentence>>]
                   ELSE Result([c1 EXCEPT !.sentenceBuffer =
                                  IF m > 0 THEN SliceRest(buf, m) ELSE buf])
            ELSE Result(c))

\* the response.text.done branch without the flush of the trailing fragment
OnTextDone11_NoFlush(j) ==
  LET c == closures[j]
  IN Message(j,
       IF closures[j].useElevenLabs
         THEN [Result([c EXCEPT !.sentenceBuffer = <<>>,
                                !.pendingTextResponse = <<>>,
                                !.turnCount = @ + 1])
                 EXCEPT !.said =
                   IF Trim(c.pendingTextResponse) # <<>>
                     THEN <<[role |-> "assistant",
                             text |-> c.pendingTextResponse]>>
                     ELSE <<>>]
         ELSE Result(c))

\* response.text.done
OnTextDone11(j) ==
  LET c == closures[j]
      c1 == IF Trim(c.sentenceBuffer) # <<>>
              THEN queueSentence(c, Trim(c.sentenceBuffer))
              ELSE c
  IN Message(j,
       IF closures[j].useElevenLabs
         THEN [Result([c1 EXCEPT !.sentenceBuffer = <<>>,
                                 !.pendingTextResponse = <<>>,
                                 !.turnCount = @ + 1])
                 EXCEPT !.emitted =
                          IF Trim(c.sentenceBuffer) # <<>>
                            THEN <<Trim(c.sentenceBuffer)>>
                            ELSE <<>>,
                        !.said =
                          IF Trim(c.pendingTextResponse) # <<>>
                            THEN <<[role |-> "assistant",
                                    text |-> c.pendingTextResponse]>>
                            ELSE <<>>]
         ELSE Result(c))

\* the speech_started branch without `userHasSpoken = true`
OnSpeechStarted11_NoSpokenFlag(j) ==
  LET c == [closures[j] EXCEPT !.waitingForUserResponse = FALSE,
                         !.callerSpeaking = TRUE,
                         !.spokeSinceTurn = TRUE]
  IN Message(j,
       IF c.isAISpeaking
         THEN [Result([c EXCEPT !.pendingTextResponse = <<>>,
                                !.sentenceBuffer = <<>>,
                                !.sentenceQueue = <<>>,
                                !.isAISpeaking = FALSE,
                                !.inflight =
                                  {[r EXCEPT !.barged = TRUE] : r \in @}])
                 EXCEPT !.openaiSent = SendOpenai(c, <<"response.cancel">>),
                        !.twilioSent = SendTwilio(ClearFrame)]
         ELSE Result(c))

\* the speech_started branch without `sentenceQueue = []`
OnSpeechStarted11_KeepQueue(j) ==
  LET c == [closures[j] EXCEPT !.userHasSpoken = TRUE,
                         !.waitingForUserResponse = FALSE,
                         !.callerSpeaking = TRUE,
                         !.spokeSinceTurn = TRUE]
  IN Message(j,
       IF c.isAISpeaking
         THEN [Result([c EXCEPT !.pendingTextResponse = <<>>,
                                !.sentenceBuffer = <<>>,
                                !.isAISpeaking = FALSE,
                                !.inflight =
                                  {[r EXCEPT !.barged = TRUE] : r \in @}])
                 EXCEPT !.openaiSent = SendOpenai(c, <<"response.cancel">>),
                        !.twilioSent = SendTwilio(ClearFrame)]
         ELSE Result(c))

\* input_audio_buffer.speech_started
OnSpeechStarted11(j) ==
  LET c == [closures[j] EXCEPT !.userHasSpoken = TRUE,
                         !.waitingForUserResponse = FALSE,
                         !.callerSpeaking = TRUE,
                         !.spokeSinceTurn = TRUE]
  IN Message(j,
       IF c.isAISpeaking
         THEN [Result([c EXCEPT !.pendingTextResponse = <<>>,
                                !.sentenceBuffer = <<>>,
                                !.sentenceQueue = <<>>,
                                !.isAISpeaking = FALSE,
                                !.inflight =
                                  {[r EXCEPT !.barged = TRUE] : r \in @}])
                 EXCEPT !.openaiSent = SendOpenai(c, <<"response.cancel">>),
                        !.twilioSent = SendTwilio(ClearFrame)]
         ELSE Result(c))

\* input_audio_buffer.speech_stopped: v11 has no branch for it
OnSpeechStopped11(j) ==
  Message(j, Result([closures[j] EXCEPT !.callerSpeaking = FALSE]))

\* response.audio.done
OnAudioDone11(j) ==
  LET c == closures[j]
  IN Message(j,
       IF ~closures[j].useElevenLabs
         THEN Result([c EXCEPT !.isAISpeaking = FALSE,
                               !.waitingForUserResponse = TRUE,
                               !.turnCount = @ + 1])
         ELSE Result(c))

\* response.done
OnResponseDone11(j) ==
  Message(j, Result([closures[j] EXCEPT !.isAISpeaking = FALSE]))

\* response.created
OnResponseCreated11(j) ==
  LET c == [closures[j] EXCEPT !.spokeSinceTurn = FALSE]
  IN Message(j,
       IF c.waitingForUserResponse /\ ~c.userHasSpoken /\ c.turnCount > 0
         THEN [Result(c) EXCEPT
                 !.openaiSent = SendOpenai(c, <<"response.cancel">>)]
         ELSE Result([c EXCEPT !.userHasSpoken = FALSE]))

\* conversation.item.input_audio_transcription.completed
OnTranscription11(j, userText) ==
  LET c == closures[j]
  IN Message(j,
       IF Trim(userText) # <<>>
         THEN [Result([c EXCEPT !.userHasSpoken = TRUE,
                                !.waitingForUserResponse = FALSE])
                 EXCEPT !.said = <<[role |-> "user", text |-> userText]>>]
         ELSE Result(c))

\* response.audio_transcript.done
OnAudioTranscriptDone11(j, aiText) ==
  Message(j,
    IF ~closures[j].useElevenLabs /\ Trim(aiText) # <<>>
      THEN [Result(closures[j]) EXCEPT
              !.said = <<[role |-> "assistant", text |-> aiText]>>]
      ELSE Result(closures[j]))

\* an error event, an event of another type, or a frame JSON.parse rejects
OnOther11(j) == Message(j, Result(closures[j]))

(***************************************************************************)
(* textToSpeechElevenLabs: the steps of one call after `await fetch`.      *)
(***************************************************************************)
\* fetch resolved with response.ok: the reader is taken
TtsFetchOk(j, r) ==
  /\ r \in closures[j].inflight
  /\ r.phase = "fetch"
  /\ Run(j, Result([closures[j] EXCEPT
                      !.inflight = (@ \ {r}) \cup {[r EXCEPT !.phase = "stream"]}]))

\* reader.read() resolved with a chunk: one media frame if the socket is open
TtsChunk(j, r) ==
  /\ r \in closures[j].inflight
  /\ r.phase = "stream"
  /\ r.chunks < MaxChunks
  /\ Run(j, [Result([closures[j] EXCEPT
                       !.inflight = (@ \ {r}) \cup {[r EXCEPT !.chunks = @ + 1]},
                       !.lastMedia = IF twilioOpen THEN r.n ELSE @])
               EXCEPT !.twilioSent = SendTwilio(MediaFrame(r.n, r.barged))])

\* the call returns: response not ok or fetch rejected (phase fetch, always a
\* failure), or the stream ended or reader.read() threw (phase stream)
TtsReturns(j, r) ==
  /\ r \in closures[j].inflight
  /\ ttsFailed' \in IF r.phase = "fetch" THEN {TRUE} ELSE BOOLEAN

\* v11: the call returned and processSentenceQueue resumes after its await
TtsReturn11(j, r) ==
  /\ TtsReturns(j, r)
  /\ Run(j, Result(sentenceDone([closures[j] EXCEPT !.inflight = @ \ {r}])))

(***************************************************************************)
(* v11: the telephony connection and the backend socket's lifecycle.       *)
(***************************************************************************)
\* the backend socket's 'close' handler: one POST if there is a transcript
\* and the start frame of the closure carried a callSid
CloseHandler11(cs) ==
  IF Len(transcription) > 0 /\ cs = CallId
    THEN <<[kind |-> "save-transcription",
            body |-> FormatTranscript11(transcription)]>>
    ELSE <<>>

\* telephony frame `start`: connectToOpenAI is called and awaited; with a
\* scriptId it awaits fetchScript before it creates the socket.  A repeated
\* start frame does the same again: a second closure and a second socket,
\* while the first closure goes on and openaiWs keeps the socket it holds.
TwilioStart11(sid, cs, hasScriptId) ==
  /\ twilioOpen
  /\ streamSid' = sid
  /\ closures' = Append(closures, NewClosure(sid, cs, hasScriptId))
  /\ twilioSent' = <<>> /\ openaiSent' = <<>> /\ httpSent' = <<>>
  /\ emitted' = <<>>
  /\ UNCHANGED <<twilioState, openaiWs, activeSessions, transcription,
                 telephonyStopped>>

\* fetchScript returns, with the script or with null; scriptAllows is
\* `script?.useElevenLabs !== false`: false only for a script that was
\* fetched and has useElevenLabs false.  Then `new WebSocket`.
ScriptReturns11(j, scriptAllows) ==
  /\ closures[j].state = "fetching"
  /\ Run(j, Result([closures[j] EXCEPT
                      !.state = "connecting",
                      !.useElevenLabs = USE_ELEVENLABS /\ scriptAllows]))

\* backend socket 'open': configuration, greeting timer, resolve
OpenaiOpen11(j) ==
  /\ closures[j].state = "connecting"
  /\ Run(j, [Result([closures[j] EXCEPT !.state = "open",
                                  !.receiving = TRUE,
                                  !.greetingTimer = TRUE,
                                  !.resuming = TRUE])
               EXCEPT !.openaiSent = <<"session.update">>])

\* the start handler resumes after `await connectToOpenAI`: it stores the
\* socket of its closure in openaiWs and registers the session under the
\* stream id of the latest start frame
StartResumes11(j) ==
  /\ closures[j].resuming
  /\ closures' = [closures EXCEPT ![j].resuming = FALSE]
  /\ openaiWs' = j
  /\ activeSessions' = activeSessions \cup {streamSid}
  /\ twilioSent' = <<>> /\ openaiSent' = <<>> /\ httpSent' = <<>>
  /\ emitted' = <<>>
  /\ UNCHANGED <<twilioState, streamSid, transcription, telephonyStopped>>

\* the greeting timer of the open handler fires
GreetingTimer11(j) ==
  /\ closures[j].greetingTimer
  /\ Run(j, [Result([closures[j] EXCEPT !.greetingTimer = FALSE])
               EXCEPT !.openaiSent = SendOpenai(closures[j], <<"response.create">>)])

\* the backend closes an OPEN socket: its close frame is answered, readyState
\* is CLOSING and no 'message' follows; 'close' is emitted in a later turn
OpenaiCloseFrame(j) ==
  /\ closures[j].state = "open"
  /\ \A i \in Closures : closures[i].resuming => i = j
  /\ Run(j, Result([closures[j] EXCEPT !.state = "closing",
                                       !.receiving = FALSE]))

\* backend socket 'close', after an 'error' or not: the network lost the
\* socket, the connection failed, or a closing handshake is over
OpenaiDown11(j) ==
  /\ closures[j].state \in {"connecting", "open", "closing"}
  /\ Run(j, [Result([closures[j] EXCEPT !.state = "closed",
                                        !.receiving = FALSE])
               EXCEPT !.httpSent = CloseHandler11(closures[j].callSid)])

\* the socket the openaiWs variable holds is OPEN
HeldSocketOpen == openaiWs > 0 /\ closures[openaiWs].state = "open"

\* telephony frame `media`
TwilioMedia11 ==
  /\ twilioOpen
  /\ openaiSent' = IF HeldSocketOpen
                     THEN <<"input_audio_buffer.append">>
                     ELSE <<>>
  /\ twilioSent' = <<>> /\ httpSent' = <<>> /\ emitted' = <<>>
  /\ UNCHANGED <<handlerVars, closures, transcription>>

\* `if (openaiWs) openaiWs.close()`: close() begins the closing handshake of
\* an OPEN socket and does nothing to one that is closing or closed
CloseHeldSocket ==
  closures' = IF HeldSocketOpen
                THEN [closures EXCEPT ![openaiWs].state = "closing"]
                ELSE closures

\* `if (openaiWs) openaiWs.close(); if (streamSid) activeSessions.delete(streamSid)`:
\* a streamSid that is null (no start frame yet) or undefined (a start frame
\* without one) deletes nothing
Cleanup11 ==
  /\ CloseHeldSocket
  /\ activeSessions' =
       IF streamSid \notin {"none", "undefined"}
         THEN activeSessions \ {streamSid}
         ELSE activeSessions

\* telephony frame `stop`
TwilioStop11 ==
  /\ twilioOpen
  /\ Cleanup11
  /\ twilioSent' = <<>> /\ openaiSent' = <<>> /\ httpSent' = <<>>
  /\ emitted' = <<>>
  /\ UNCHANGED <<twilioState, streamSid, openaiWs, transcription,
                 telephonyStopped>>

\* the close frame of the telephony side arrives, or the connection is
\* lost: readyState becomes CLOSING and no handler of the repository runs;
\* no telephony frame is handled after it, and the 'close' event follows
TwilioClosing ==
  /\ twilioOpen
  /\ twilioState' = "closing"
  /\ twilioSent' = <<>> /\ openaiSent' = <<>> /\ httpSent' = <<>>
  /\ emitted' = <<>>
  /\ UNCHANGED <<streamSid, openaiWs, activeSessions, telephonyStopped,
                 closures, transcription>>

\* telephony socket 'close'
TwilioClose11 ==
  /\ twilioState = "closing"
  /\ twilioState' = "closed"
  /\ Cleanup11
  /\ twilioSent' = <<>> /\ openaiSent' = <<>> /\ httpSent' = <<>>
  /\ emitted' = <<>>
  /\ UNCHANGED <<streamSid, openaiWs, transcription, telephonyStopped>>

(***************************************************************************)
(* Initial state: a telephony connection has just been accepted.           *)
(***************************************************************************)
Init ==
  /\ twilioState = "open"
  /\ streamSid = "none"
  /\ openaiWs = 0
  /\ closures = <<>>
  /\ activeSessions = {}
  /\ transcription = <<>>
  /\ telephonyStopped = FALSE
  /\ twilioSent = <<>> /\ openaiSent = <<>> /\ httpSent = <<>>
  /\ emitted = <<>>
  /\ ttsFailed = FALSE
  /\ USE_ELEVENLABS \in BOOLEAN
  /\ scriptFetch = "idle"
  /\ scriptAttempts = 0
  /\ savesPending = 0
  /\ saveOutcome = NoSave
  /\ cancelSent = "none"
  /\ spoken = <<>>
  /\ sinceStart = 0
  /\ utterance = <<>>
  /\ verdict = <<>>

(***************************************************************************)
(* SpecV11: the events of one telephony connection of v11, within the      *)
(* bounds.                                                                 *)
(***************************************************************************)
\* text deltas the backend streams
Deltas11 == {<<"a">>, <<"a", ".">>, <<"a", "?">>, <<" ">>}

\* transcripts the backend reports
Texts11 == {<<"a">>, <<" ">>}

\* a step in which no synthesis call returns
NoTtsReturn == ttsFailed' = FALSE

\* a step of a call leaves the configuration, the classifier and the
\* observers of the other specifications alone
Frame == UNCHANGED <<USE_ELEVENLABS, classifyVars, httpVars, histVars>>

\* a step of the connection itself: a frame of the telephony side, a socket
\* or the script request changing state, a timer
Quiet == UNCHANGED restartVars

\* the start frame was repeated, or the latest one lacks an id
Anomalous ==
  \/ Len(closures) > 1
  \/ \E j \in Closures : "undefined" \in {closures[j].sid, closures[j].callSid}

\* an event of the backend or of a synthesis call: MaxRestartEvents of them
\* are followed after such a start frame
Counted ==
  /\ Anomalous => sinceStart < MaxRestartEvents
  /\ sinceStart' = IF sinceStart > MaxEventsBeforeRestart
                     THEN sinceStart
                     ELSE sinceStart + 1

\* a start frame is followed: the first one, or a repeated one that arrives
\* within MaxEventsBeforeRestart events of the one before
MayStart ==
  /\ Len(closures) < MaxStarts
  /\ streamSid # "none" => sinceStart <= MaxEventsBeforeRestart

\* Counted and MayStart with the bound of v11
Counted11 ==
  /\ Anomalous => sinceStart < MaxRestartEvents
  /\ sinceStart' = IF sinceStart > MaxEventsBeforeRestart11
                     THEN sinceStart
                     ELSE sinceStart + 1

MayStart11 ==
  /\ Len(closures) < MaxStarts
  /\ streamSid # "none" => sinceStart <= MaxEventsBeforeRestart11

\* the stream ids of start frames: the first carries StreamId, a repeated
\* one the same id or another
StartIds == IF streamSid = "none" THEN {StreamId} ELSE {StreamId, OtherStreamId}

\* the ids of the start frames of v11: the first may lack its streamSid, its
\* callSid or both, a repeated one carries both
StartIds11 == IF streamSid = "none" THEN {StreamId, "undefined"} ELSE StartIds

CallIds11 == IF streamSid = "none" THEN {CallId, "undefined"} ELSE {CallId}

V11_TwilioStart ==
  \E sid \in StartIds11, cs \in CallIds11, hasScriptId \in BOOLEAN :
    /\ MayStart11
    /\ Idle
    /\ TwilioStart11(sid, cs, hasScriptId)
    /\ Frame
    /\ sinceStart' = 0
    /\ NoTtsReturn

V11_ScriptReturns ==
  \E j \in Closures, scriptAllows \in BOOLEAN :
    Idle /\ ScriptReturns11(j, scriptAllows) /\ Frame /\ Quiet /\ NoTtsReturn

V11_OpenaiOpen ==
  \E j \in Closures : Idle /\ OpenaiOpen11(j) /\ Frame /\ Quiet /\ NoTtsReturn

V11_StartResumes ==
  \E j \in Closures : StartResumes11(j) /\ Frame /\ Quiet /\ NoTtsReturn

V11_GreetingTimer ==
  \E j \in Closures : Idle /\ GreetingTimer11(j) /\ Frame /\ Quiet /\ NoTtsReturn

V11_OpenaiCloseFrame ==
  \E j \in Closures : OpenaiCloseFrame(j) /\ Frame /\ Quiet /\ NoTtsReturn

V11_OpenaiDown ==
  \E j \in Closures : Idle /\ OpenaiDown11(j) /\ Frame /\ Quiet /\ NoTtsReturn

V11_TwilioMedia == Idle /\ TwilioMedia11 /\ Frame /\ Quiet /\ NoTtsReturn

V11_TwilioStop == Idle /\ TwilioStop11 /\ Frame /\ Quiet /\ NoTtsReturn

V11_TwilioClosing == Idle /\ TwilioClosing /\ Frame /\ Quiet /\ NoTtsReturn

V11_TwilioClose == Idle /\ TwilioClose11 /\ Frame /\ Quiet /\ NoTtsReturn

V11_AudioDelta ==
  \E j \in Closures : OnAudioDelta11(j) /\ Frame /\ Counted11 /\ NoTtsReturn

V11_TextDelta ==
  \E j \in Closures, d \in Deltas11 :
    /\ Len(closures[j].pendingTextResponse) + Len(d) <= MaxText
    /\ closures[j].nEmitted < MaxSentences
    /\ closures[j].turnCount < MaxTurns
    /\ OnTextDelta11(j, d)
    /\ Frame
    /\ Counted11
    /\ NoTtsReturn

V11_TextDone ==
  \E j \in Closures :
    /\ closures[j].nEmitted < MaxSentences
    /\ closures[j].turnCount < MaxTurns
    /\ Len(transcription) < MaxTranscript
    /\ OnTextDone11(j)
    /\ Frame
    /\ Counted11
    /\ NoTtsReturn

V11_SpeechStarted ==
  \E j \in Closures : OnSpeechStarted11(j) /\ Frame /\ Counted11 /\ NoTtsReturn

V11_SpeechStopped ==
  \E j \in Closures : OnSpeechStopped11(j) /\ Frame /\ Counted11 /\ NoTtsReturn

V11_AudioDone ==
  \E j \in Closures :
    /\ closures[j].turnCount < MaxTurns
    /\ OnAudioDone11(j)
    /\ Frame
    /\ Counted11
    /\ NoTtsReturn

V11_ResponseDone ==
  \E j \in Closures : OnResponseDone11(j) /\ Frame /\ Counted11 /\ NoTtsReturn

V11_ResponseCreated ==
  \E j \in Closures : OnResponseCreated11(j) /\ Frame /\ Counted11 /\ NoTtsReturn

V11_Transcription ==
  \E j \in Closures, t \in Texts11 :
    /\ Len(transcription) < MaxTranscript
    /\ OnTranscription11(j, t)
    /\ Frame
    /\ Counted11
    /\ NoTtsReturn

V11_AudioTranscriptDone ==
  \E j \in Closures, t \in Texts11 :
    /\ Len(transcription) < MaxTranscript
    /\ OnAudioTranscriptDone11(j, t)
    /\ Frame
    /\ Counted11
    /\ NoTtsReturn

V11_Other ==
  \E j \in Closures : OnOther11(j) /\ Frame /\ Counted11 /\ NoTtsReturn

V11_TtsFetchOk ==
  \E j \in Closures : \E r \in closures[j].inflight :
    Idle /\ TtsFetchOk(j, r) /\ Frame /\ Counted11 /\ NoTtsReturn

V11_TtsChunk ==
  \E j \in Closures : \E r \in closures[j].inflight :
    Idle /\ TtsChunk(j, r) /\ Frame /\ Counted11 /\ NoTtsReturn

V11_TtsReturn ==
  \E j \in Closures : \E r \in closures[j].inflight :
    Idle /\ TtsReturn11(j, r) /\ Frame /\ Counted11

Next11 ==
  \/ V11_TwilioStart
  \/ V11_ScriptReturns
  \/ V11_OpenaiOpen
  \/ V11_StartResumes
  \/ V11_GreetingTimer
  \/ V11_OpenaiCloseFrame
  \/ V11_OpenaiDown
  \/ V11_TwilioMedia
  \/ V11_TwilioStop
  \/ V11_TwilioClosing
  \/ V11_TwilioClose
  \/ V11_AudioDelta
  \/ V11_TextDelta
  \/ V11_TextDone
  \/ V11_SpeechStarted
  \/ V11_SpeechStopped
  \/ V11_AudioDone
  \/ V11_ResponseDone
  \/ V11_ResponseCreated
  \/ V11_Transcription
  \/ V11_AudioTranscriptDone
  \/ V11_Other
  \/ V11_TtsFetchOk
  \/ V11_TtsChunk
  \/ V11_TtsReturn

SpecV11 == Init /\ [][Next11]_vars

(***************************************************************************)
(* Claims checked under SpecV11.  A call is the session a start frame      *)
(* begins: a closure and its backend socket.                               *)
(***************************************************************************)
\* the media frames among the frames the last step sent
MediaSent == {i \in 1..Len(twilioSent) : twilioSent[i].event = "media"}

\* C1 as stated: a speech_started event handled by a closure while its
\* isAISpeaking is set always sends a clear frame to the telephony side and
\* empties the sentence queue, in the same run of the handler.
C1_BargeInAlwaysClears ==
  [][\A j \in Closures :
       (OnSpeechStarted11(j) /\ closures[j].isAISpeaking) =>
         /\ (closures[j].sentenceQueue)' = <<>>
         /\ twilioSent' = <<ClearFrame>>]_vars

\* C1 amended: a speech_started event handled by a closure while its
\* isAISpeaking is set empties its sentence queue and, if the telephony
\* socket is open, sends a clear frame in the same run of the handler, so
\* before any further media frame; on a telephony socket that is closing or
\* closed the handler sends no frame, and nothing is ever sent.
C1_BargeInClearsFirst ==
  /\ [][\A j \in Closures :
          (OnSpeechStarted11(j) /\ closures[j].isAISpeaking) =>
            /\ (closures[j].sentenceQueue)' = <<>>
            /\ twilioSent' = IF twilioOpen THEN <<ClearFrame>> ELSE <<>>]_vars
  /\ [](~twilioOpen => twilioSent = <<>>)

\* C1 witness: a barge-in has just been handled with a sentence in synthesis
\* and a later sentence, then queued, now discarded
C1_Witness ==
  /\ twilioSent = <<ClearFrame>>
  /\ openaiSent = <<"response.cancel">>
  /\ sentenceQueue = <<>>
  /\ inflight # {}
  /\ lastSynth < nEmitted

\* C2: no media frame is forwarded for a sentence that was in synthesis when a
\* barge-in was handled.
C2_NoAudioAfterBargeIn ==
  \A i \in MediaSent : ~twilioSent[i].barged

\* C3: the AI of a call producing audio (isAISpeaking set, or a media frame
\* of its synthesis being forwarded) and its caller speaking never hold
\* together.
C3_NoOverlap ==
  \A j \in Closures :
    ~(/\ closures[j].callerSpeaking
      /\ \/ closures[j].isAISpeaking
         \/ /\ MediaSent # {}
            /\ \E r \in closures[j].inflight :
                 twilioSent = <<MediaFrame(r.n, r.barged)>>)

\* C7: at most one sentence of a call is in synthesis at any time.
C7_OneSynthesisAtATime ==
  \A j \in Closures : Cardinality(closures[j].inflight) <= 1

\* C7 witness: a sentence is still in synthesis after a barge-in and a new
\* sentence waits behind it
C7_Witness ==
  /\ \E r \in inflight : r.barged
  /\ sentenceQueue # <<>>

\* C8: the sentences of a call reach the synthesizer in emission order, each
\* at most once, and its media frames never go back to an earlier sentence:
\* a chunk that is forwarded belongs to the sentence handed over last.
C8_SequentialInOrder ==
  [][\A j \in Closures :
       /\ (closures[j].lastSynth)' # closures[j].lastSynth =>
            (closures[j].lastSynth)' > closures[j].lastSynth
       /\ (closures[j].lastMedia)' >= closures[j].lastMedia
       /\ \A r \in closures[j].inflight :
            TtsChunk(j, r) =>
              /\ r.n = closures[j].lastSynth
              /\ twilioOpen => twilioSent' = <<MediaFrame(closures[j].lastSynth, r.barged)>>]_vars

\* C8 witness: the second of three emitted sentences is being streamed, after
\* the first, while the third waits
C8_Witness ==
  /\ nEmitted = 3
  /\ lastSynth = 2
  /\ lastMedia = 2
  /\ Len(sentenceQueue) = 1
  /\ \E r \in inflight : r.n = 2 /\ r.chunks > 0

\* C12: when the synthesis call of a sentence returns after a failure, that
\* sentence is not handed to the synthesizer again, the sentence at the head
\* of the queue (if any) is handed over in the same step and the rest of the
\* queue stays in order; and the consumer is busy only while a call is in
\* flight.
C12_FailureSkipsOneSentence ==
  /\ [][\A j \in Closures : \A r \in closures[j].inflight :
          (TtsReturn11(j, r) /\ ttsFailed') =>
            /\ \A q \in (closures[j].inflight)' : q.n # r.n
            /\ IF closures[j].sentenceQueue # <<>>
                 THEN /\ (closures[j].inflight)' =
                           {StartSynthesis(Head(closures[j].sentenceQueue))}
                      /\ (closures[j].sentenceQueue)' = Tail(closures[j].sentenceQueue)
                      /\ (closures[j].lastSynth)' = Head(closures[j].sentenceQueue).n
                      /\ (closures[j].isProcessingSentence)'
                 ELSE /\ (closures[j].inflight)' = {}
                      /\ ~(closures[j].isProcessingSentence)'
                      /\ (closures[j].lastSynth)' = closures[j].lastSynth]_vars
  /\ [](\A j \in Closures : closures[j].isProcessingSentence => closures[j].inflight # {})

\* C12 witness: the first sentence failed before any audio, the second is now
\* in synthesis and the third still waits
C12_Witness ==
  /\ ttsFailed
  /\ lastMedia = 0
  /\ lastSynth = 2
  /\ \E r \in inflight : r.n = 2 /\ r.phase = "fetch"
  /\ Len(sentenceQueue) = 1
  /\ sentenceQueue[1].n = 3

\* C14: a response.created event handled while the call waits for the
\* caller, with no speech_started since the previous response.created and
\* with at least one completed turn, is answered with a response.cancel,
\* whatever the order of the events before it.
C14_UnsolicitedResponseCancelled ==
  [][\A j \in Closures :
       (/\ OnResponseCreated11(j)
        /\ closures[j].state = "open"
        /\ closures[j].waitingForUserResponse
        /\ ~closures[j].spokeSinceTurn
        /\ closures[j].turnCount > 0) =>
         openaiSent' = <<"response.cancel">>]_vars

(***************************************************************************)
(* v18: the interest classifier (detectInterest) and its keyword lists.    *)
(***************************************************************************)
\* utterances of fewer words than this are never classified
MinWords == 3

\* the classifier runs from this number of caller utterances on
MinUserMessages == 2

POSITIVE_INTEREST_KEYWORDS ==
  <<<<"a", "g", "e", "n", "d", "a", "r">>,
    <<"m", "a", "r", "c", "a", "r", " ", "r", "e", "u", "n", "i", "ã", "o">>,
    <<"m", "a", "r", "c", "a", "r", " ", "u", "m", "a", " ", "r", "e", "u", "n", "i", "ã", "o">>,
    <<"a", "g", "e", "n", "d", "e">>,
    <<"m", "a", "r", "q", "u", "e">>,
    <<"v", "a", "m", "o", "s", " ", "m", "a", "r", "c", "a", "r">>,
    <<"v", "a", "m", "o", "s", " ", "a", "g", "e", "n", "d", "a", "r">>,
    <<"t", "e", "n", "h", "o", " ", "i", "n", "t", "e", "r", "e", "s", "s", "e">>,
    <<"m", "e", " ", "i", "n", "t", "e", "r", "e", "s", "s", "a">>,
    <<"q", "u", "e", "r", "o", " ", "s", "a", "b", "e", "r", " ", "m", "a", "i", "s">>,
    <<"s", "a", "b", "e", "r", " ", "m", "a", "i", "s">>,
    <<"m", "a", "i", "s", " ", "i", "n", "f", "o", "r", "m", "a", "ç", "õ", "e", "s">>,
    <<"m", "a", "i", "s", " ", "i", "n", "f", "o", "r", "m", "a", "c", "o", "e", "s">>,
    <<"m", "e", " ", "c", "o", "n", "t", "e", " ", "m", "a", "i", "s">>,
    <<"c", "o", "m", "o", " ", "f", "u", "n", "c", "i", "o", "n", "a">>,
    <<"q", "u", "e", "r", "o", " ", "c", "o", "n", "h", "e", "c", "e", "r">>,
    <<"q", "u", "e", "r", "o", " ", "e", "n", "t", "e", "n", "d", "e", "r">>,
    <<"q", "u", "e", "r", "o", " ", "c", "o", "n", "t", "r", "a", "t", "a", "r">>,
    <<"q", "u", "e", "r", "o", " ", "c", "o", "m", "p", "r", "a", "r">>,
    <<"q", "u", "a", "n", "t", "o", " ", "c", "u", "s", "t", "a">>,
    <<"q", "u", "a", "l", " ", "o", " ", "v", "a", "l", "o", "r">>,
    <<"q", "u", "a", "l", " ", "o", " ", "p", "r", "e", "ç", "o">>,
    <<"q", "u", "a", "l", " ", "o", " ", "p", "r", "e", "c", "o">>,
    <<"p", "r", "o", "p", "o", "s", "t", "a">>,
    <<"o", "r", "ç", "a", "m", "e", "n", "t", "o">>,
    <<"o", "r", "c", "a", "m", "e", "n", "t", "o">>,
    <<"m", "e", "u", " ", "e", "m", "a", "i", "l">>,
    <<"m", "e", "u", " ", "t", "e", "l", "e", "f", "o", "n", "e">>,
    <<"m", "e", "u", " ", "w", "h", "a", "t", "s", "a", "p", "p">>,
    <<"m", "a", "n", "d", "a", " ", "n", "o", " ", "w", "h", "a", "t", "s", "a", "p", "p">>,
    <<"e", "n", "v", "i", "a", " ", "p", "o", "r", " ", "e", "m", "a", "i", "l">>,
    <<"p", "o", "d", "e", " ", "l", "i", "g", "a", "r", " ", "d", "e", " ", "v", "o", "l", "t", "a">>,
    <<"m", "e", " ", "l", "i", "g", "a", " ", "d", "e", "p", "o", "i", "s">>,
    <<"f", "e", "c", "h", "a", "d", "o">>,
    <<"v", "a", "m", "o", "s", " ", "l", "á">>,
    <<"v", "a", "m", "o", "s", " ", "l", "a">>,
    <<"b", "o", "r", "a">>,
    <<"q", "u", "e", "r", "o", " ", "s", "i", "m">>,
    <<"c", "o", "m", " ", "c", "e", "r", "t", "e", "z", "a", " ", "q", "u", "e", "r", "o">>>>

NEGATIVE_KEYWORDS ==
  <<<<"n", "ã", "o", " ", "t", "e", "n", "h", "o", " ", "i", "n", "t", "e", "r", "e", "s", "s", "e">>,
    <<"n", "a", "o", " ", "t", "e", "n", "h", "o", " ", "i", "n", "t", "e", "r", "e", "s", "s", "e">>,
    <<"n", "ã", "o", " ", "q", "u", "e", "r", "o">>,
    <<"n", "a", "o", " ", "q", "u", "e", "r", "o">>,
    <<"n", "ã", "o", " ", "p", "r", "e", "c", "i", "s", "o">>,
    <<"n", "a", "o", " ", "p", "r", "e", "c", "i", "s", "o">>,
    <<"n", "ã", "o", " ", "o", "b", "r", "i", "g", "a", "d", "o">>,
    <<"n", "a", "o", " ", "o", "b", "r", "i", "g", "a", "d", "o">>,
    <<"d", "e", "s", "c", "u", "l", "p", "a">>,
    <<"s", "e", "m", " ", "i", "n", "t", "e", "r", "e", "s", "s", "e">>,
    <<"t", "ô", " ", "o", "c", "u", "p", "a", "d", "o">>,
    <<"t", "o", " ", "o", "c", "u", "p", "a", "d", "o">>,
    <<"a", "g", "o", "r", "a", " ", "n", "ã", "o">>,
    <<"a", "g", "o", "r", "a", " ", "n", "a", "o">>,
    <<"o", "u", "t", "r", "o", " ", "m", "o", "m", "e", "n", "t", "o">>,
    <<"n", "ã", "o", " ", "é", " ", "o", " ", "m", "o", "m", "e", "n", "t", "o">>,
    <<"n", "ã", "o", " ", "m", "e", " ", "i", "n", "t", "e", "r", "e", "s", "s", "a">>,
    <<"n", "a", "o", " ", "m", "e", " ", "i", "n", "t", "e", "r", "e", "s", "s", "a">>>>

\* the characters of Basic Latin and of the Latin-1 Supplement (U+0000 to
\* U+00FF) that toLowerCase changes, in code point order
UpperCase ==
  <<"A", "B", "C", "D", "E", "F", "G", "H", "I", "J", "K", "L",
    "M", "N", "O", "P", "Q", "R", "S", "T", "U", "V", "W", "X",
    "Y", "Z", "À", "Á", "Â", "Ã", "Ä", "Å", "Æ", "Ç", "È", "É",
    "Ê", "Ë", "Ì", "Í", "Î", "Ï", "Ð", "Ñ", "Ò", "Ó", "Ô", "Õ",
    "Ö", "Ø", "Ù", "Ú", "Û", "Ü", "Ý", "Þ">>

\* what toLowerCase makes of each of them
LowerCase ==
  <<"a", "b", "c", "d", "e", "f", "g", "h", "i", "j", "k", "l",
    "m", "n", "o", "p", "q", "r", "s", "t", "u", "v", "w", "x",
    "y", "z", "à", "á", "â", "ã", "ä", "å", "æ", "ç", "è", "é",
    "ê", "ë", "ì", "í", "î", "ï", "ð", "ñ", "ò", "ó", "ô", "õ",
    "ö", "ø", "ù", "ú", "û", "ü", "ý", "þ">>

\* the characters of U+0020 to U+00FF that toLowerCase leaves as they are,
\* the micro sign, the sharp s and the y with diaeresis among them (the
\* grave accent U+0060 is left out: a string of the module cannot hold it),
\* and the white space, which has no case
Caseless ==
  {" ", "!", "\"", "#", "$", "%", "&", "'", "(", ")", "*", "+",
   ",", "-", ".", "/", "0", "1", "2", "3", "4", "5", "6", "7",
   "8", "9", ":", ";", "<", "=", ">", "?", "@", "[", "\\", "]",
   "^", "_", "a", "b", "c", "d", "e", "f", "g", "h", "i", "j",
   "k", "l", "m", "n", "o", "p", "q", "r", "s", "t", "u", "v",
   "w", "x", "y", "z", "{", "|", "}", "~", " ", "¡", "¢", "£",
   "¤", "¥", "¦", "§", "¨", "©", "ª", "«", "¬", "­", "®", "¯",
   "°", "±", "²", "³", "´", "µ", "¶", "·", "¸", "¹", "º", "»",
   "¼", "½", "¾", "¿", "×", "ß", "à", "á", "â", "ã", "ä", "å",
   "æ", "ç", "è", "é", "ê", "ë", "ì", "í", "î", "ï", "ð", "ñ",
   "ò", "ó", "ô", "õ", "ö", "÷", "ø", "ù", "ú", "û", "ü", "ý",
   "þ", "ÿ"} \cup Whitespace

\* String.prototype.toLowerCase on the texts of one character that the
\* model holds; it has no value for any other character
toLowerCase ==
  [c \in {UpperCase[i] : i \in 1..Len(UpperCase)} \cup Caseless |->
     IF c \in Caseless
       THEN c
       ELSE LowerCase[CHOOSE i \in 1..Len(UpperCase) : UpperCase[i] = c]]

\* String.prototype.toLowerCase, one character
LowerOf(c) == toLowerCase[c]

\* String.prototype.toLowerCase
ToLowerCase(s) == [i \in 1..Len(s) |-> LowerOf(s[i])]

\* String.prototype.includes: k occurs in s as a substring
IncludesText(s, k) ==
  \E i \in 0..(Len(s) - Len(k)) : SubSeq(s, i + 1, i + Len(k)) = k

\* s.split(/\s+/).length: one more than the number of runs of whitespace
SplitLength(s) ==
  1 + Cardinality({i \in 1..Len(s) :
                     /\ s[i] \in Whitespace
                     /\ (i = 1 \/ s[i - 1] \notin Whitespace)})

\* the result { interested: false, signal: null }; null is the empty text
NotInterested == [interested |-> FALSE, signal |-> <<>>]

\* index of the first keyword of the list that occurs in s, 0 if none does
FirstKeyword(list, s) ==
  IF \E i \in 1..Len(list) : IncludesText(s, list[i])
    THEN CHOOSE i \in 1..Len(list) :
           /\ IncludesText(s, list[i])
           /\ \A j \in 1..(i - 1) : ~IncludesText(s, list[j])
    ELSE 0

\* index of the last keyword of the list that occurs in s, 0 if none does
LastKeyword(list, s) ==
  IF \E i \in 1..Len(list) : IncludesText(s, list[i])
    THEN CHOOSE i \in 1..Len(list) :
           /\ IncludesText(s, list[i])
           /\ \A j \in (i + 1)..Len(list) : ~IncludesText(s, list[j])
    ELSE 0

\* detectInterest checking the positive list before the negative one
detectInterest_PositiveFirst(text) ==
  LET lowerText == Trim(ToLowerCase(text))
      p == FirstKeyword(POSITIVE_INTEREST_KEYWORDS, lowerText)
  IN IF SplitLength(lowerText) < MinWords THEN NotInterested
     ELSE IF p > 0
       THEN [interested |-> TRUE, signal |-> POSITIVE_INTEREST_KEYWORDS[p]]
     ELSE NotInterested

\* detectInterest without the test of the number of words
detectInterest_AnyLength(text) ==
  LET lowerText == Trim(ToLowerCase(text))
      p == FirstKeyword(POSITIVE_INTEREST_KEYWORDS, lowerText)
  IN IF FirstKeyword(NEGATIVE_KEYWORDS, lowerText) > 0 THEN NotInterested
     ELSE IF p > 0
       THEN [interested |-> TRUE, signal |-> POSITIVE_INTEREST_KEYWORDS[p]]
     ELSE NotInterested

\* detectInterest returning the last matching positive keyword of the list
detectInterest_LastMatch(text) ==
  LET lowerText == Trim(ToLowerCase(text))
      p == LastKeyword(POSITIVE_INTEREST_KEYWORDS, lowerText)
  IN IF SplitLength(lowerText) < MinWords THEN NotInterested
     ELSE IF FirstKeyword(NEGATIVE_KEYWORDS, lowerText) > 0 THEN NotInterested
     ELSE IF p > 0
       THEN [interested |-> TRUE, signal |-> POSITIVE_INTEREST_KEYWORDS[p]]
     ELSE NotInterested

\* detectInterest
detectInterest(text) ==
  LET lowerText == Trim(ToLowerCase(text))
      p == FirstKeyword(POSITIVE_INTEREST_KEYWORDS, lowerText)
  IN IF SplitLength(lowerText) < MinWords THEN NotInterested
     ELSE IF FirstKeyword(NEGATIVE_KEYWORDS, lowerText) > 0 THEN NotInterested
     ELSE IF p > 0
       THEN [interested |-> TRUE, signal |-> POSITIVE_INTEREST_KEYWORDS[p]]
     ELSE NotInterested

(***************************************************************************)
(* SpecClassify: detectInterest applied to utterances put together from    *)
(* words, two of them positive keywords, one a keyword after lower-casing, *)
(* "não" which makes a negative keyword in front of "quero", the same word *)
(* in capitals, lower-cased outside Basic Latin, and blanks.               *)
(***************************************************************************)
Pieces ==
  {<<"q", "u", "e", "r", "o", " ">>,
   <<"s", "i", "m", " ">>,
   <<"a", "g", "e", "n", "d", "a", "r", " ">>,
   <<"b", "o", "r", "a", " ">>,
   <<"n", "ã", "o", " ">>,
   <<"N", "Ã", "O", " ">>,
   <<"o", "k">>,
   <<"P", "r", "o", "p", "o", "s", "t", "a", " ">>,
   <<" ", " ">>}

\* a word is added to the utterance that will be classified
Cls_Say ==
  \E w \in Pieces :
    /\ verdict = <<>>
    /\ Len(utterance) + Len(w) <= MaxUtterance
    /\ utterance' = utterance \o w
    /\ UNCHANGED <<callVars, verdict>>

\* detectInterest(utterance) is called and returns
Cls_Classify ==
  /\ verdict = <<>>
  /\ verdict' = <<detectInterest(utterance)>>
  /\ UNCHANGED <<callVars, utterance>>

NextClassify ==
  \/ Cls_Say
  \/ Cls_Classify

\* no call is in progress while the classifier is exercised on its own
InitClassify == Init /\ USE_ELEVENLABS

SpecClassify == InitClassify /\ [][NextClassify]_vars

(***************************************************************************)
(* Claims checked under SpecClassify.                                      *)
(***************************************************************************)
\* some keyword of the list occurs in the lower-cased text
HasKeyword(list, text) ==
  \E i \in 1..Len(list) : IncludesText(ToLowerCase(text), list[i])

\* number of words of the lower-cased, trimmed text
Words(text) == SplitLength(Trim(ToLowerCase(text)))

\* position of the first occurrence of k in s (String.prototype.indexOf)
IndexOf(s, k) ==
  CHOOSE i \in 0..(Len(s) - Len(k)) :
    /\ SubSeq(s, i + 1, i + Len(k)) = k
    /\ \A j \in 0..(i - 1) : SubSeq(s, j + 1, j + Len(k)) # k

\* C17: an utterance that contains a negative keyword is classified as not
\* interested, whatever positive keywords it also contains.
C17_NegativeWins ==
  (verdict # <<>> /\ HasKeyword(NEGATIVE_KEYWORDS, utterance)) =>
    ~verdict[1].interested

\* C17 witness: an utterance of at least three words with a negative and a
\* positive keyword has been classified
C17_Witness ==
  /\ verdict # <<>>
  /\ HasKeyword(NEGATIVE_KEYWORDS, utterance)
  /\ HasKeyword(POSITIVE_INTEREST_KEYWORDS, utterance)
  /\ Words(utterance) >= 3

\* C18: an utterance of fewer than three words is classified as not
\* interested with a null signal, even when it is a positive keyword.
C18_ShortUtteranceIgnored ==
  (verdict # <<>> /\ Words(utterance) < 3) =>
    verdict[1] = [interested |-> FALSE, signal |-> <<>>]

\* C18 witness: a two-word utterance that is itself a positive keyword and
\* holds no negative keyword has been classified
C18_Witness ==
  /\ verdict # <<>>
  /\ Words(utterance) = 2
  /\ \E i \in 1..Len(POSITIVE_INTEREST_KEYWORDS) :
       Trim(ToLowerCase(utterance)) = POSITIVE_INTEREST_KEYWORDS[i]
  /\ ~HasKeyword(NEGATIVE_KEYWORDS, utterance)

\* C19: an utterance of at least three words without a negative keyword is
\* classified as interested exactly when a positive keyword occurs in it, and
\* the signal is then the first keyword of the positive list that occurs.
C19_FirstKeywordOfList ==
  (/\ verdict # <<>>
   /\ Words(utterance) >= 3
   /\ ~HasKeyword(NEGATIVE_KEYWORDS, utterance)) =>
    /\ verdict[1].interested <=>
         HasKeyword(POSITIVE_INTEREST_KEYWORDS, utterance)
    /\ verdict[1].interested =>
         \E i \in 1..Len(POSITIVE_INTEREST_KEYWORDS) :
           /\ verdict[1].signal = POSITIVE_INTEREST_KEYWORDS[i]
           /\ IncludesText(ToLowerCase(utterance),
                           POSITIVE_INTEREST_KEYWORDS[i])
           /\ \A j \in 1..(i - 1) :
                ~IncludesText(ToLowerCase(utterance),
                              POSITIVE_INTEREST_KEYWORDS[j])
    /\ ~verdict[1].interested => verdict[1].signal = <<>>

\* C19 witness: the signal returned is a keyword that stands in the text
\* after another positive keyword, which comes later in the list
C19_Witness ==
  /\ verdict # <<>>
  /\ verdict[1].interested
  /\ \E j \in 1..Len(POSITIVE_INTEREST_KEYWORDS) :
       /\ IncludesText(ToLowerCase(utterance), POSITIVE_INTEREST_KEYWORDS[j])
       /\ IndexOf(ToLowerCase(utterance), POSITIVE_INTEREST_KEYWORDS[j])
            < IndexOf(ToLowerCase(utterance), verdict[1].signal)

(***************************************************************************)
(* v18 (server.js): handlers of the backend socket's 'message' event.      *)
(***************************************************************************)
\* body of the save-transcription POST of v18: ZENIX / CLIENTE lines
FormatTranscript18(t) ==
  [i \in 1..Len(t) |->
     <<IF t[i].role = "assistant" THEN "ZENIX" ELSE "CLIENTE", t[i].text>>]

\* the session.update sent on open: speech detection disabled
SessionConfig18 == "session.update turn_detection=null"

\* the session.update sent after the greeting: speech detection enabled
VadUpdate18 == "session.update turn_detection=server_vad"

\* the session.updated branches without the `!greetingSent` test
OnSessionUpdated18_NoGuard(j) ==
  LET c == closures[j]
  IN Message(j,
       [Result([c EXCEPT !.nSessionUpdated = @ + 1,
                         !.greetingSent = TRUE,
                         !.nGreetings = @ + 1])
          EXCEPT !.openaiSent = SendOpenai(c, <<"response.create">>)])

\* session.updated: the greeting is requested once
OnSessionUpdated18(j) ==
  LET c == [closures[j] EXCEPT !.nSessionUpdated = @ + 1]
  IN Message(j,
       IF ~c.greetingSent
         THEN [Result([c EXCEPT !.greetingSent = TRUE,
                                !.nGreetings = @ + 1])
                 EXCEPT !.openaiSent = SendOpenai(c, <<"response.create">>)]
         ELSE Result(c))

\* response.done: the first one arms speech detection
OnResponseDone18(j) ==
  LET c == closures[j]
  IN Message(j,
       IF ~c.greetingResponseDone
         THEN [Result([c EXCEPT !.greetingResponseDone = TRUE])
                 EXCEPT !.openaiSent = SendOpenai(c, <<VadUpdate18>>)]
         ELSE Result(c))

\* response.audio.delta with a non-empty delta
OnAudioDelta18(j) ==
  Message(j,
    IF ~closures[j].useElevenLabs
      THEN [Result(closures[j])
              EXCEPT !.twilioSent = SendTwilio(MediaFrame(0, FALSE))]
      ELSE Result(closures[j]))

\* response.text.delta with a non-empty delta
OnTextDelta18(j, delta) ==
  /\ delta # <<>>
  /\ Message(j,
       IF closures[j].useElevenLabs
         THEN Result([closures[j] EXCEPT !.fullResponse = @ \o delta])
         ELSE Result(closures[j]))

\* response.text.done, up to `await textToSpeechElevenLabs`
OnTextDone18(j) ==
  LET c == closures[j]
      textToSpeak == Trim(c.fullResponse)
  IN Message(j,
       IF closures[j].useElevenLabs
         THEN IF textToSpeak # <<>> /\ ~c.isProcessing
                THEN [Result([c EXCEPT
                                !.fullResponse = <<>>,
                                !.isProcessing = TRUE,
                                !.inflight = @ \cup
                                  {StartSynthesis([text |-> textToSpeak,
                                                   n |-> 0])}])
                        EXCEPT !.said = <<[role |-> "assistant",
                                           text |-> textToSpeak]>>]
                ELSE Result([c EXCEPT !.fullResponse = <<>>])
         ELSE Result(c))

\* response.audio_transcript.done
OnAudioTranscriptDone18(j, assistantText) ==
  Message(j,
    IF ~closures[j].useElevenLabs /\ Trim(assistantText) # <<>>
      THEN [Result(closures[j]) EXCEPT
              !.said = <<[role |-> "assistant", text |-> assistantText]>>]
      ELSE Result(closures[j]))

\* input_audio_buffer.speech_started
OnSpeechStarted18(j) ==
  Message(j, [Result(closures[j]) EXCEPT !.twilioSent = SendTwilio(ClearFrame)])

\* sendInterestNotification's POST to /api/twilio/client-interest
InterestNotification(signal, t) ==
  [kind |-> "client-interest", signal |-> signal,
   body |-> FormatTranscript18(t)]

\* the transcription branch without the `!interestNotified` test
OnTranscription18_Renotify(j, userText) ==
  LET c == [closures[j] EXCEPT !.userMessageCount = @ + 1]
      said == <<[role |-> "user", text |-> userText]>>
  IN Message(j,
       IF Trim(userText) # <<>>
         THEN IF /\ c.userMessageCount >= MinUserMessages
                 /\ detectInterest(userText).interested
                THEN [Result([c EXCEPT !.interestNotified = TRUE,
                                       !.nInterest = @ + 1])
                        EXCEPT !.said = said,
                               !.httpSent =
                                 <<InterestNotification(
                                     detectInterest(userText).signal,
                                     transcription \o said)>>]
                ELSE [Result(c) EXCEPT !.said = said]
         ELSE Result(closures[j]))

\* the transcription branch without the `userMessageCount >= 2` test
OnTranscription18_FromFirst(j, userText) ==
  LET c == [closures[j] EXCEPT !.userMessageCount = @ + 1]
      said == <<[role |-> "user", text |-> userText]>>
  IN Message(j,
       IF Trim(userText) # <<>>
         THEN IF /\ ~c.interestNotified
                 /\ detectInterest(userText).interested
                THEN [Result([c EXCEPT !.interestNotified = TRUE,
                                       !.nInterest = @ + 1])
                        EXCEPT !.said = said,
                               !.httpSent =
                                 <<InterestNotification(
                                     detectInterest(userText).signal,
                                     transcription \o said)>>]
                ELSE [Result(c) EXCEPT !.said = said]
         ELSE Result(closures[j]))

\* conversation.item.input_audio_transcription.completed: the utterance is
\* counted and recorded, and classified from the second one on until the
\* first notification
OnTranscription18(j, userText) ==
  LET c == [closures[j] EXCEPT !.userMessageCount = @ + 1]
      said == <<[role |-> "user", text |-> userText]>>
  IN Message(j,
       IF Trim(userText) # <<>>
         THEN IF /\ ~c.interestNotified
                 /\ c.userMessageCount >= MinUserMessages
                 /\ detectInterest(userText).interested
                THEN [Result([c EXCEPT !.interestNotified = TRUE,
                                       !.nInterest = @ + 1])
                        EXCEPT !.said = said,
                               !.httpSent =
                                 <<InterestNotification(
                                     detectInterest(userText).signal,
                                     transcription \o said)>>]
                ELSE [Result(c) EXCEPT !.said = said]
         ELSE Result(closures[j]))

\* the codes of the backend's error events
ErrorCodes18 == {"session_expired", "invalid_request_error"}

\* an error event: `console.error` and nothing else, whatever the code
OnErrorEvent18(j, code) ==
  /\ code \in ErrorCodes18
  /\ Message(j, Result(closures[j]))

\* an event of another type, or a frame JSON.parse rejects
OnOther18(j) == Message(j, Result(closures[j]))

\* v18: the call returned and the text.done handler resumes after its await
TtsReturn18(j, r) ==
  /\ TtsReturns(j, r)
  /\ Run(j, Result([closures[j] EXCEPT !.inflight = @ \ {r},
                                       !.isProcessing = FALSE]))

(***************************************************************************)
(* v18: the telephony connection, the backend socket, the save timer.      *)
(***************************************************************************)
\* sendTranscriptionToBackend's POST
SaveTranscript18 ==
  [kind |-> "save-transcription", body |-> FormatTranscript18(transcription)]

\* the final save of the 'close' handler
FinalSave18 == IF Len(transcription) > 0 THEN <<SaveTranscript18>> ELSE <<>>

\* the 'close' handler without the final save
CloseHandler18_NoSave(c) ==
  Result([c EXCEPT !.transcriptionSaveTimer = FALSE])

\* the backend socket's 'close' handler of v18
CloseHandler18(c) ==
  [Result([c EXCEPT !.transcriptionSaveTimer = FALSE])
     EXCEPT !.httpSent = FinalSave18]

\* the start handler registering the session before the handshake
TwilioStart18_RegisterEarly(sid, hasScriptId) ==
  /\ twilioOpen
  /\ streamSid' = sid
  /\ closures' = Append(closures, NewClosure(sid, CallId, hasScriptId))
  /\ activeSessions' = activeSessions \cup {sid}
  /\ twilioSent' = <<>> /\ openaiSent' = <<>> /\ httpSent' = <<>>
  /\ emitted' = <<>>
  /\ UNCHANGED <<twilioState, openaiWs, transcription, telephonyStopped>>

\* telephony frame `start`: connectToOpenAI is called and awaited; with a
\* scriptId it awaits fetchScript before it creates the socket.  A repeated
\* start frame does the same again: a second closure and a second socket,
\* while the first closure goes on and openaiWs keeps the socket it holds.
TwilioStart18(sid, hasScriptId) ==
  /\ twilioOpen
  /\ streamSid' = sid
  /\ closures' = Append(closures, NewClosure(sid, CallId, hasScriptId))
  /\ twilioSent' = <<>> /\ openaiSent' = <<>> /\ httpSent' = <<>>
  /\ emitted' = <<>>
  /\ UNCHANGED <<twilioState, openaiWs, activeSessions, transcription,
                 telephonyStopped>>

\* fetchScript returns, with the script or with null: `new WebSocket`
ScriptReturns18(j) ==
  /\ closures[j].state = "fetching"
  /\ Run(j, Result([closures[j] EXCEPT !.state = "connecting"]))

\* backend socket 'open': configuration with turn_detection null, the save
\* timer, resolve
OpenaiOpen18(j) ==
  /\ closures[j].state = "connecting"
  /\ Run(j, [Result([closures[j] EXCEPT !.state = "open",
                                        !.receiving = TRUE,
                                        !.transcriptionSaveTimer = TRUE,
                                        !.resuming = TRUE])
               EXCEPT !.openaiSent = <<SessionConfig18>>])

\* the start handler resumes after `await connectToOpenAI`: it stores the
\* socket of its closure in openaiWs and registers the session under the
\* stream id of the latest start frame
StartResumes18(j) ==
  /\ closures[j].resuming
  /\ closures' = [closures EXCEPT ![j].resuming = FALSE]
  /\ openaiWs' = j
  /\ activeSessions' = activeSessions \cup {streamSid}
  /\ twilioSent' = <<>> /\ openaiSent' = <<>> /\ httpSent' = <<>>
  /\ emitted' = <<>>
  /\ UNCHANGED <<twilioState, streamSid, transcription, telephonyStopped>>

\* the timer callback without the `transcription.length > 0` test
SaveTimer18_Unguarded(j) ==
  /\ closures[j].transcriptionSaveTimer
  /\ Run(j, [Result([closures[j] EXCEPT
                       !.transcriptionSaveTimer =
                         (closures[j].sid \in activeSessions)])
               EXCEPT !.httpSent = <<SaveTranscript18>>])

\* the timeout of scheduleTranscriptionSave fires: the callback saves the
\* transcript and schedules itself again while the stream id its closure
\* was given is registered
SaveTimer18(j) ==
  /\ closures[j].transcriptionSaveTimer
  /\ Run(j, [Result([closures[j] EXCEPT
                       !.transcriptionSaveTimer =
                         (closures[j].sid \in activeSessions)])
               EXCEPT !.httpSent = IF Len(transcription) > 0
                                     THEN <<SaveTranscript18>>
                                     ELSE <<>>])

\* backend socket 'close', after an 'error' or not: the network lost the
\* socket, the connection failed, or a closing handshake is over
OpenaiDown18(j) ==
  /\ closures[j].state \in {"connecting", "open", "closing"}
  /\ Run(j, CloseHandler18([closures[j] EXCEPT !.state = "closed",
                                               !.receiving = FALSE]))

\* the media branch without the test of the backend socket
TwilioMedia18_NoCheck ==
  /\ twilioOpen
  /\ openaiSent' = <<"input_audio_buffer.append">>
  /\ twilioSent' = <<>> /\ httpSent' = <<>> /\ emitted' = <<>>
  /\ UNCHANGED <<handlerVars, closures, transcription>>

\* telephony frame `media`
TwilioMedia18 ==
  /\ twilioOpen
  /\ openaiSent' = IF HeldSocketOpen
                     THEN <<"input_audio_buffer.append">>
                     ELSE <<>>
  /\ twilioSent' = <<>> /\ httpSent' = <<>> /\ emitted' = <<>>
  /\ UNCHANGED <<handlerVars, closures, transcription>>

\* telephony frames the handler was not written for: text JSON.parse
\* rejects, a `start` frame without its `start` object or with a `start`
\* object without streamSid, a `media` frame without its `media` object or
\* with a `media` object without payload
MalformedFrames18 ==
  {"unparseable", "start-without-start", "start-without-streamSid",
   "media-without-media", "media-without-payload"}

\* the telephony 'message' handler on such a frame: a throw inside the try is
\* caught and logged; `start: {}` reads streamSid as undefined and goes on to
\* connectToOpenAI; `media: {}` forwards an append without audio
TwilioMalformed18(frame) ==
  /\ frame \in MalformedFrames18
  /\ IF frame = "start-without-streamSid"
       THEN \E hasScriptId \in BOOLEAN : TwilioStart18("undefined", hasScriptId)
       ELSE /\ twilioOpen
            /\ openaiSent' =
                 IF frame = "media-without-payload" /\ HeldSocketOpen
                   THEN <<"input_audio_buffer.append without audio">>
                   ELSE <<>>
            /\ twilioSent' = <<>> /\ httpSent' = <<>> /\ emitted' = <<>>
            /\ UNCHANGED <<handlerVars, closures, transcription>>

\* `if (openaiWs) openaiWs.close(); if (streamSid) activeSessions.delete(streamSid)`:
\* a streamSid that is null (no start frame yet) or undefined (a start frame
\* without one) deletes nothing
Cleanup18 ==
  /\ CloseHeldSocket
  /\ activeSessions' =
       IF streamSid \notin {"none", "undefined"}
         THEN activeSessions \ {streamSid}
         ELSE activeSessions

\* telephony frame `stop`
TwilioStop18 ==
  /\ twilioOpen
  /\ Cleanup18
  /\ twilioSent' = <<>> /\ openaiSent' = <<>> /\ httpSent' = <<>>
  /\ emitted' = <<>>
  /\ telephonyStopped' = TRUE
  /\ UNCHANGED <<twilioState, streamSid, openaiWs, transcription>>

\* telephony socket 'close'
TwilioClose18 ==
  /\ twilioState = "closing"
  /\ twilioState' = "closed"
  /\ Cleanup18
  /\ twilioSent' = <<>> /\ openaiSent' = <<>> /\ httpSent' = <<>>
  /\ emitted' = <<>>
  /\ UNCHANGED <<streamSid, openaiWs, transcription, telephonyStopped>>

(***************************************************************************)
(* SpecV18: the events of one telephony connection of v18, within the      *)
(* bounds.                                                                 *)
(***************************************************************************)
Deltas18 == {<<"a">>, <<" ">>}

Texts18 == {<<"a">>, <<" ">>}

\* what the caller says: "quero agendar sim", "não quero agendar", "ok", " "
UserTexts18 ==
  {<<"q", "u", "e", "r", "o", " ", "a", "g", "e", "n", "d", "a", "r", " ",
     "s", "i", "m">>,
   <<"n", "ã", "o", " ", "q", "u", "e", "r", "o", " ", "a", "g", "e", "n",
     "d", "a", "r">>,
   <<"o", "k">>,
   <<" ">>}

V18_TwilioStart ==
  \E sid \in StartIds, hasScriptId \in BOOLEAN :
    /\ MayStart
    /\ Idle
    /\ TwilioStart18(sid, hasScriptId)
    /\ Frame
    /\ sinceStart' = 0
    /\ NoTtsReturn

V18_ScriptReturns ==
  \E j \in Closures : Idle /\ ScriptReturns18(j) /\ Frame /\ Quiet /\ NoTtsReturn

V18_OpenaiOpen ==
  \E j \in Closures : Idle /\ OpenaiOpen18(j) /\ Frame /\ Quiet /\ NoTtsReturn

V18_StartResumes ==
  \E j \in Closures : StartResumes18(j) /\ Frame /\ Quiet /\ NoTtsReturn

V18_SaveTimer ==
  \E j \in Closures : Idle /\ SaveTimer18(j) /\ Frame /\ Quiet /\ NoTtsReturn

V18_OpenaiCloseFrame ==
  \E j \in Closures : OpenaiCloseFrame(j) /\ Frame /\ Quiet /\ NoTtsReturn

V18_OpenaiDown ==
  \E j \in Closures : Idle /\ OpenaiDown18(j) /\ Frame /\ Quiet /\ NoTtsReturn

V18_TwilioMedia == Idle /\ TwilioMedia18 /\ Frame /\ Quiet /\ NoTtsReturn

V18_TwilioMalformed ==
  \E frame \in MalformedFrames18 :
    /\ frame = "start-without-streamSid" => MayStart
    /\ Idle
    /\ TwilioMalformed18(frame)
    /\ Frame
    /\ sinceStart' = IF frame = "start-without-streamSid" THEN 0 ELSE sinceStart
    /\ NoTtsReturn

V18_TwilioStop == Idle /\ TwilioStop18 /\ Frame /\ Quiet /\ NoTtsReturn

V18_TwilioClosing == Idle /\ TwilioClosing /\ Frame /\ Quiet /\ NoTtsReturn

V18_TwilioClose == Idle /\ TwilioClose18 /\ Frame /\ Quiet /\ NoTtsReturn

V18_SessionUpdated ==
  \E j \in Closures :
    /\ closures[j].nSessionUpdated < MaxSessionUpdated
    /\ OnSessionUpdated18(j)
    /\ Frame
    /\ Counted
    /\ NoTtsReturn

V18_ResponseDone ==
  \E j \in Closures : OnResponseDone18(j) /\ Frame /\ Counted /\ NoTtsReturn

V18_AudioDelta ==
  \E j \in Closures : OnAudioDelta18(j) /\ Frame /\ Counted /\ NoTtsReturn

V18_TextDelta ==
  \E j \in Closures, d \in Deltas18 :
    /\ Len(closures[j].fullResponse) + Len(d) <= MaxText
    /\ OnTextDelta18(j, d)
    /\ Frame
    /\ Counted
    /\ NoTtsReturn

V18_TextDone ==
  \E j \in Closures :
    /\ Len(transcription) < MaxTranscript18
    /\ OnTextDone18(j)
    /\ Frame
    /\ Counted
    /\ NoTtsReturn

V18_AudioTranscriptDone ==
  \E j \in Closures, t \in Texts18 :
    /\ Len(transcription) < MaxTranscript18
    /\ OnAudioTranscriptDone18(j, t)
    /\ Frame
    /\ Counted
    /\ NoTtsReturn

V18_SpeechStarted ==
  \E j \in Closures : OnSpeechStarted18(j) /\ Frame /\ Counted /\ NoTtsReturn

V18_Transcription ==
  \E j \in Closures, t \in UserTexts18 :
    /\ Len(transcription) < MaxTranscript18
    /\ OnTranscription18(j, t)
    /\ Frame
    /\ Counted
    /\ NoTtsReturn

V18_Other ==
  \E j \in Closures : OnOther18(j) /\ Frame /\ Counted /\ NoTtsReturn

V18_ErrorEvent ==
  \E j \in Closures, code \in ErrorCodes18 :
    OnErrorEvent18(j, code) /\ Frame /\ Counted /\ NoTtsReturn

V18_TtsFetchOk ==
  \E j \in Closures : \E r \in closures[j].inflight :
    Idle /\ TtsFetchOk(j, r) /\ Frame /\ Counted /\ NoTtsReturn

V18_TtsChunk ==
  \E j \in Closures : \E r \in closures[j].inflight :
    Idle /\ TtsChunk(j, r) /\ Frame /\ Counted /\ NoTtsReturn

V18_TtsReturn ==
  \E j \in Closures : \E r \in closures[j].inflight :
    Idle /\ TtsReturn18(j, r) /\ Frame /\ Counted

Next18 ==
  \/ V18_TwilioStart
  \/ V18_ScriptReturns
  \/ V18_OpenaiOpen
  \/ V18_StartResumes
  \/ V18_SaveTimer
  \/ V18_OpenaiCloseFrame
  \/ V18_OpenaiDown
  \/ V18_TwilioMedia
  \/ V18_TwilioMalformed
  \/ V18_TwilioStop
  \/ V18_TwilioClosing
  \/ V18_TwilioClose
  \/ V18_SessionUpdated
  \/ V18_ResponseDone
  \/ V18_AudioDelta
  \/ V18_TextDelta
  \/ V18_TextDone
  \/ V18_AudioTranscriptDone
  \/ V18_SpeechStarted
  \/ V18_Transcription
  \/ V18_Other
  \/ V18_ErrorEvent
  \/ V18_TtsFetchOk
  \/ V18_TtsChunk
  \/ V18_TtsReturn

SpecV18 == Init /\ [][Next18]_vars

(***************************************************************************)
(* SpecInterest: the caller's side of one call of v18, with up to          *)
(* MaxUserMessages transcribed utterances: the telephony frames, the       *)
(* backend socket going up and down, the save timer, and the caller's      *)
(* speech and transcripts.                                                 *)
(***************************************************************************)
Int_Transcription ==
  \E j \in Closures, t \in UserTexts18 :
    /\ closures[j].userMessageCount < MaxUserMessages
    /\ OnTranscription18(j, t)
    /\ Frame
    /\ Counted
    /\ NoTtsReturn

NextInterest ==
  \/ V18_TwilioStart
  \/ V18_ScriptReturns
  \/ V18_OpenaiOpen
  \/ V18_StartResumes
  \/ V18_SaveTimer
  \/ V18_OpenaiCloseFrame
  \/ V18_OpenaiDown
  \/ V18_TwilioStop
  \/ V18_TwilioClosing
  \/ V18_TwilioClose
  \/ V18_SpeechStarted
  \/ Int_Transcription

SpecInterest == Init /\ [][NextInterest]_vars

(***************************************************************************)
(* Claims checked under SpecInterest.                                      *)
(***************************************************************************)
\* the client-interest POSTs among the requests of one step
InterestPosts(h) == {i \in 1..Len(h) : h[i].kind = "client-interest"}

\* C15: the interest notification is sent at most once per call: every
\* client-interest POST is counted by the closure of the session that sent
\* it, and the count of no session ever exceeds one.
C15_NotifiedAtMostOnce ==
  /\ [][/\ \A j \in Closures :
             (closures[j].nInterest)' \in
               {closures[j].nInterest,
                closures[j].nInterest + Cardinality(InterestPosts(httpSent'))}
        /\ InterestPosts(httpSent') # {} =>
             \E j \in Closures :
               (closures[j].nInterest)' = closures[j].nInterest + 1]_vars
  /\ [](\A j \in Closures : closures[j].nInterest <= 1)

\* a call whose last two utterances both classify positive, the later one
\* heard after the notification, with one notification in all
C15_Witness ==
  /\ nInterest = 1
  /\ interestNotified
  /\ userMessageCount >= 3
  /\ Len(transcription) >= 3
  /\ detectInterest(transcription[Len(transcription)].text).interested
  /\ detectInterest(transcription[Len(transcription) - 1].text).interested
  /\ InterestPosts(httpSent) = {}

\* C16: no utterance handled before the count of non-empty utterances has
\* reached two sends a notification, whatever it says; from the second
\* non-empty utterance on, each one that classifies positive while no
\* notification has been sent yet sends exactly one, carrying the matched
\* keyword and the transcript so far.
C16_ClassifiedFromSecondUtterance ==
  [][\A j \in Closures, t \in UserTexts18 : OnTranscription18(j, t) =>
       /\ ((closures[j].userMessageCount)' < 2 =>
             InterestPosts(httpSent') = {})
       /\ (/\ Trim(t) # <<>>
           /\ closures[j].userMessageCount >= 1
           /\ ~closures[j].interestNotified
           /\ detectInterest(t).interested)
          => /\ httpSent' = <<InterestNotification(detectInterest(t).signal,
                                                   transcription')>>
             /\ (closures[j].interestNotified)']_vars

\* the first utterance classifies positive and is passed over, the second
\* does not, and the third sends the notification
C16_Witness ==
  /\ userMessageCount = 3
  /\ Len(transcription) = 3
  /\ detectInterest(transcription[1].text).interested
  /\ ~detectInterest(transcription[2].text).interested
  /\ detectInterest(transcription[3].text).interested
  /\ InterestPosts(httpSent) = {1}
  /\ nInterest = 1

(***************************************************************************)
(* SpecHttp: one call of v18 together with the outcome of its REST calls:  *)
(* the script fetch that connectToOpenAI awaits before it creates the      *)
(* backend socket, and the transcript POSTs of the timer and of the        *)
(* 'close' handler.                                                        *)
(***************************************************************************)
\* fetchScript returns: the script, or null after the one fetch() failed
\* (rejected, or answered with a status that is not ok)
fetchScriptReturns(ok) ==
  /\ scriptFetch = "pending"
  /\ scriptFetch' = IF ok THEN "loaded" ELSE "failed"
  /\ UNCHANGED scriptAttempts

\* sendTranscriptionToBackend returns: its one fetch() was answered ok, or
\* it failed and the failure was logged
sendTranscriptionReturns(result) ==
  /\ savesPending > 0
  /\ savesPending' = savesPending - 1
  /\ saveOutcome' = [result |-> result, attempts |-> 1]

\* the handlers do not wait for the POSTs they issue
PostsIssued ==
  /\ savesPending' = savesPending + Len(httpSent')
  /\ saveOutcome' = NoSave

FrameHttp == UNCHANGED <<USE_ELEVENLABS, classifyVars, histVars>>

\* the start frame: connectToOpenAI fetches the script when it has an id
Http_TwilioStart ==
  \E sid \in StartIds, hasScriptId \in BOOLEAN :
    /\ MayStart
    /\ Idle
    /\ TwilioStart18(sid, hasScriptId)
    /\ scriptFetch' = IF hasScriptId THEN "pending" ELSE "idle"
    /\ scriptAttempts' = IF hasScriptId THEN 1 ELSE 0
    /\ UNCHANGED savesPending
    /\ saveOutcome' = NoSave
    /\ FrameHttp
    /\ sinceStart' = 0
    /\ NoTtsReturn

\* the script fetch is over: the backend socket is created.  The observer
\* follows the fetch of the latest start frame.
Http_ScriptResponse ==
  \E j \in Closures :
    /\ Idle
    /\ ScriptReturns18(j)
    /\ IF j = Latest
         THEN \E ok \in BOOLEAN : fetchScriptReturns(ok)
         ELSE UNCHANGED <<scriptFetch, scriptAttempts>>
    /\ UNCHANGED savesPending
    /\ saveOutcome' = NoSave
    /\ FrameHttp
    /\ Quiet
    /\ NoTtsReturn

Http_OpenaiOpen ==
  \E j \in Closures :
    /\ Idle
    /\ OpenaiOpen18(j)
    /\ PostsIssued
    /\ UNCHANGED <<scriptFetch, scriptAttempts>>
    /\ FrameHttp
    /\ Quiet
    /\ NoTtsReturn

Http_StartResumes ==
  \E j \in Closures :
    /\ StartResumes18(j)
    /\ PostsIssued
    /\ UNCHANGED <<scriptFetch, scriptAttempts>>
    /\ FrameHttp
    /\ Quiet
    /\ NoTtsReturn

Http_OpenaiCloseFrame ==
  \E j \in Closures :
    /\ OpenaiCloseFrame(j)
    /\ PostsIssued
    /\ UNCHANGED <<scriptFetch, scriptAttempts>>
    /\ FrameHttp
    /\ Quiet
    /\ NoTtsReturn

Http_OpenaiDown ==
  \E j \in Closures :
    /\ savesPending < MaxSaves
    /\ Idle
    /\ OpenaiDown18(j)
    /\ PostsIssued
    /\ UNCHANGED <<scriptFetch, scriptAttempts>>
    /\ FrameHttp
    /\ Quiet
    /\ NoTtsReturn

Http_SaveTimer ==
  \E j \in Closures :
    /\ savesPending < MaxSaves
    /\ Idle
    /\ SaveTimer18(j)
    /\ PostsIssued
    /\ UNCHANGED <<scriptFetch, scriptAttempts>>
    /\ FrameHttp
    /\ Quiet
    /\ NoTtsReturn

Http_TwilioStop ==
  /\ Idle
  /\ TwilioStop18
  /\ PostsIssued
  /\ UNCHANGED <<scriptFetch, scriptAttempts>>
  /\ FrameHttp
  /\ Quiet
  /\ NoTtsReturn

Http_TwilioClosing ==
  /\ Idle
  /\ TwilioClosing
  /\ PostsIssued
  /\ UNCHANGED <<scriptFetch, scriptAttempts>>
  /\ FrameHttp
  /\ Quiet
  /\ NoTtsReturn

Http_TwilioClose ==
  /\ Idle
  /\ TwilioClose18
  /\ PostsIssued
  /\ UNCHANGED <<scriptFetch, scriptAttempts>>
  /\ FrameHttp
  /\ Quiet
  /\ NoTtsReturn

Http_AudioTranscriptDone ==
  \E j \in Closures, t \in Texts18 :
    /\ Len(transcription) < MaxTranscript18
    /\ OnAudioTranscriptDone18(j, t)
    /\ PostsIssued
    /\ UNCHANGED <<scriptFetch, scriptAttempts>>
    /\ FrameHttp
    /\ Counted
    /\ NoTtsReturn

Http_SaveResponse ==
  \E result \in {"ok", "failed"} :
    /\ sendTranscriptionReturns(result)
    /\ twilioSent' = <<>> /\ openaiSent' = <<>> /\ httpSent' = <<>>
    /\ emitted' = <<>>
    /\ UNCHANGED <<handlerVars, closures, transcription, scriptFetch,
                   scriptAttempts>>
    /\ FrameHttp
    /\ Quiet
    /\ NoTtsReturn

NextHttp ==
  \/ Http_TwilioStart
  \/ Http_ScriptResponse
  \/ Http_OpenaiOpen
  \/ Http_StartResumes
  \/ Http_OpenaiCloseFrame
  \/ Http_OpenaiDown
  \/ Http_SaveTimer
  \/ Http_TwilioStop
  \/ Http_TwilioClosing
  \/ Http_TwilioClose
  \/ Http_AudioTranscriptDone
  \/ Http_SaveResponse

SpecHttp == Init /\ [][NextHttp]_vars

\* C29: a script fetch or a transcript save that ends in failure has made
\* at least two attempts: a first failure is followed by a further attempt
\* before the operation gives up.
C29_FailedRequestRetried ==
  /\ scriptFetch = "failed" => scriptAttempts >= 2
  /\ saveOutcome.result = "failed" => saveOutcome.attempts >= 2

(***************************************************************************)
(* Claims checked under SpecV18.                                           *)
(***************************************************************************)
\* C4: a speech_started event handled while synthesized AI audio is being
\* played out sends a response.cancel to the backend.
C4_BargeInCancelsResponse ==
  [][\A j \in Closures :
       (OnSpeechStarted18(j) /\ closures[j].inflight # {}) =>
         \E i \in 1..Len(openaiSent') : openaiSent'[i] = "response.cancel"]_vars

\* C5: the greeting response.create of a call is sent exactly once, by the
\* first session.updated, whatever number of session.updated events arrive.
C5_GreetingOnce ==
  \A j \in Closures :
    /\ closures[j].nGreetings <= 1
    /\ closures[j].greetingSent <=> closures[j].nGreetings = 1
    /\ closures[j].nSessionUpdated >= 1 => closures[j].nGreetings = 1

\* C5 witness: session.updated has just been handled again, after the
\* greeting was requested and speech detection was re-armed
C5_Witness ==
  /\ nSessionUpdated >= 2
  /\ greetingResponseDone
  /\ nGreetings = 1

\* C6: a speech_started event handled before the greeting response is done
\* sends nothing and leaves the buffered AI output alone.
C6_SpeechDuringGreetingIgnored ==
  [][\A j \in Closures :
       (OnSpeechStarted18(j) /\ ~closures[j].greetingResponseDone) =>
         /\ twilioSent' = <<>>
         /\ openaiSent' = <<>>
         /\ closures' = closures]_vars

\* C32: a speech_started event handled when the AI is not speaking (the
\* greeting response is done, no response text is pending and no synthesis
\* is in progress) sends no cancel request and no clear frame and leaves the
\* pending text and the synthesis calls unchanged.
C32_SpeechWhenSilentNoOp ==
  [][\A j \in Closures :
       (/\ OnSpeechStarted18(j)
        /\ closures[j].useElevenLabs
        /\ closures[j].greetingResponseDone
        /\ closures[j].fullResponse = <<>>
        /\ ~closures[j].isProcessing
        /\ closures[j].inflight = {}) =>
         /\ twilioSent' = <<>>
         /\ openaiSent' = <<>>
         /\ closures' = closures]_vars

\* C34: with external synthesis every response.text.done that completes a
\* response with non-blank text appends that text to the transcript and
\* starts one synthesis call for it, also when the synthesis of the previous
\* response is still in progress.
C34_ResponseTranscribedAndSpoken ==
  [][\A j \in Closures :
       (/\ OnTextDone18(j)
        /\ closures[j].useElevenLabs
        /\ Trim(closures[j].fullResponse) # <<>>) =>
         /\ transcription' =
              Append(transcription,
                     [role |-> "assistant",
                      text |-> Trim(closures[j].fullResponse)])
         /\ \/ \E r \in (closures[j].inflight)' \ closures[j].inflight :
                 r.text = Trim(closures[j].fullResponse)
            \/ (closures[j].isProcessing)' /\ ~closures[j].isProcessing]_vars

\* C35: the backend socket opened for a telephony connection does not
\* outlive it: once the telephony socket has disconnected (its 'close'
\* handler has run), after which no telephony handler runs again, the
\* backend socket is not open, whatever
\* the order of start, stop, disconnect and the handshake was.
C35_BackendSocketClosedAfterDisconnect ==
  twilioState = "closed" =>
    \A j \in Closures : closures[j].state # "open"

\* C20: once the telephony side has sent `stop` or has disconnected (the
\* 'close' handler of its socket has run), the stream id is not in the session registry, in this state and in every
\* later one, whatever the backend handshake does in between.
C20_StreamUnregistered ==
  (telephonyStopped \/ twilioState = "closed") =>
    StreamId \notin activeSessions

\* C22: an id enters the registry only in the step in which a start
\* handler resumes after its await, with the socket of its closure, which
\* has opened; a start handler is left waiting to resume only by the step
\* in which its socket opens and the configuration message is sent on it;
\* and the socket the handler holds while the registry has an entry is
\* never missing or still connecting.
C22_RegisteredSessionsComplete ==
  /\ [][\A id \in activeSessions' \ activeSessions :
          \E j \in Closures :
            /\ closures[j].resuming
            /\ ~(closures[j].resuming)'
            /\ closures[j].state \in {"open", "closing"}
            /\ openaiWs' = j]_vars
  /\ [][\A j \in Closures :
          (~closures[j].resuming /\ (closures[j].resuming)') =>
            /\ closures[j].state = "connecting"
            /\ (closures[j].state)' = "open"
            /\ openaiSent' = <<SessionConfig18>>]_vars
  /\ [](activeSessions # {} =>
          /\ openaiWs > 0
          /\ closures[openaiWs].state \in {"open", "closing", "closed"})

\* a registered call whose backend socket is open
C22_Witness ==
  /\ StreamId \in activeSessions
  /\ openaiWs = Latest
  /\ openaiState = "open"
  /\ ~resuming
  /\ twilioOpen

\* the save-transcription POSTs among the requests of one step
TranscriptPosts(h) == {i \in 1..Len(h) : h[i].kind = "save-transcription"}

\* t is an initial part of u
IsPrefix(t, u) == Len(t) <= Len(u) /\ SubSeq(u, 1, Len(t)) = t

\* C23: a stop or a disconnect begins the close of the open backend socket
\* the handler holds; the step in which a backend socket closes posts a
\* non-empty transcript once, with every entry in the order of appending;
\* once every socket of the connection is closed no transcript is posted
\* and none is appended; and the transcript only ever grows at its end.
C23_OneFinalFlushInOrder ==
  /\ [][((TwilioStop18 \/ TwilioClose18) /\ HeldSocketOpen) =>
          (closures[openaiWs].state)' = "closing"]_vars
  /\ [][(/\ \E j \in Closures :
                /\ closures[j].state # "closed"
                /\ (closures[j].state)' = "closed"
           /\ Len(transcription) > 0) =>
          /\ transcription' = transcription
          /\ Len(httpSent') = 1
          /\ httpSent'[1].kind = "save-transcription"
          /\ httpSent'[1].body =
               [i \in 1..Len(transcription) |->
                  <<IF transcription[i].role = "assistant"
                      THEN "ZENIX" ELSE "CLIENTE",
                    transcription[i].text>>]]_vars
  /\ [][(/\ closures # <<>>
           /\ \A j \in Closures : closures[j].state = "closed") =>
          /\ TranscriptPosts(httpSent') = {}
          /\ transcription' = transcription]_vars
  /\ [][IsPrefix(transcription, transcription')]_vars

\* a call of two entries, the caller's and the AI's, ended by the telephony
\* side disconnecting, in the state right after the final flush
C23_Witness ==
  /\ twilioState = "closed"
  /\ openaiState = "closed"
  /\ Len(transcription) = 2
  /\ transcription[1].role # transcription[2].role
  /\ Len(httpSent) = 1
  /\ httpSent[1].kind = "save-transcription"
  /\ Len(httpSent[1].body) = 2

\* C24: a transcript POST is sent only while the transcript is non-empty,
\* carries the transcript as it stands and leaves it as it is; a firing of
\* the save timer changes nothing of the call but the timer itself; and a
\* flush that directly follows a flush sends the same content.
C24_FlushIdempotent ==
  /\ [][TranscriptPosts(httpSent') # {} =>
          /\ Len(transcription) > 0
          /\ transcription' = transcription
          /\ \A i \in TranscriptPosts(httpSent') :
               /\ Len(httpSent'[i].body) = Len(transcription)
               /\ \A j \in 1..Len(transcription) :
                    httpSent'[i].body[j][2] = transcription[j].text]_vars
  /\ [][\A j \in Closures : SaveTimer18(j) =>
          /\ UNCHANGED <<handlerVars, transcription>>
          /\ closures' =
               [closures EXCEPT ![j].transcriptionSaveTimer =
                                  (closures[j].transcriptionSaveTimer)']]_vars
  /\ [][(TranscriptPosts(httpSent) # {} /\ TranscriptPosts(httpSent') # {}) =>
          httpSent' = httpSent]_vars

\* the save timer has just flushed a non-empty transcript and is pending
\* again, so that the next firing flushes with no new entry in between
C24_Witness ==
  /\ openaiState = "open"
  /\ transcriptionSaveTimer
  /\ Len(transcription) > 0
  /\ TranscriptPosts(httpSent) = {1}
  /\ Len(httpSent[1].body) = Len(transcription)

\* C25: once the telephony side has stopped or disconnected (the handler
\* of `stop` or of 'close' has run), which takes
\* the call out of the registry, the save timer is never scheduled again: a
\* timer that is not pending stays so, and a firing leaves none pending.
C25_NoTimerAfterTeardown ==
  /\ [][\A j \in Closures :
          ((telephonyStopped \/ twilioState = "closed") /\
             ~closures[j].transcriptionSaveTimer) =>
            ~(closures[j].transcriptionSaveTimer)']_vars
  /\ [][\A j \in Closures :
          ((telephonyStopped \/ twilioState = "closed") /\ SaveTimer18(j)) =>
            ~(closures[j].transcriptionSaveTimer)']_vars

\* C26: a backend socket that fails before it opens leaves the telephony
\* connection, the registry and the socket the handler holds as they are;
\* and as long as no backend socket has opened for the connection (the
\* handler holds none and every socket is awaited, connecting or closed),
\* the registry has no entry, media frames are forwarded nowhere, and no
\* frame is sent to the telephony side or to the backend.
C26_UnreachableBackendContained ==
  /\ [][\A j \in Closures :
          (OpenaiDown18(j) /\ closures[j].state = "connecting") =>
            /\ twilioState' = twilioState
            /\ activeSessions' = activeSessions
            /\ openaiWs' = openaiWs]_vars
  /\ []((/\ openaiWs = 0
         /\ \A j \in Closures :
              closures[j].state \in {"fetching", "connecting", "closed"}) =>
          /\ activeSessions = {}
          /\ twilioSent = <<>>
          /\ openaiSent = <<>>)

\* the handshake has failed and the telephony connection is still open
C26_Witness ==
  /\ openaiWs = 0
  /\ openaiState = "closed"
  /\ streamSid = StreamId
  /\ twilioOpen
  /\ ~telephonyStopped

\* C27: a malformed frame, from the telephony side or from the backend,
\* closes neither socket and leaves the state of the call as it was.
C27_MalformedFrameDropped ==
  [][((\E j \in Closures : OnOther18(j)) \/
        (\E frame \in MalformedFrames18 : TwilioMalformed18(frame))) =>
       UNCHANGED <<handlerVars, closures, transcription>>]_vars

\* C28: a backend error event that reports session expiry ends the call:
\* after it is handled the backend socket and the telephony socket are closed
\* and the stream id is out of the registry; an error event with another
\* code leaves the sockets and the registry as they are.
C28_SessionExpiryEndsCall ==
  /\ [][\A j \in Closures : OnErrorEvent18(j, "session_expired") =>
          /\ (closures[j].state)' = "closed"
          /\ ~twilioOpen'
          /\ streamSid \notin activeSessions']_vars
  /\ [][\A j \in Closures : OnErrorEvent18(j, "invalid_request_error") =>
          /\ UNCHANGED handlerVars
          /\ (closures[j].state)' = closures[j].state]_vars

\* the last step sent the session update that enables speech detection
VadArmed(sent) == \E i \in 1..Len(sent) : sent[i] = VadUpdate18

\* C30: the configuration sent on open has speech detection disabled; the
\* update that enables it is sent by the first response.done and by no other
\* step, so once per call; and it is never sent before the greeting request
\* has been issued.
C30_VadArmedOnceAfterGreeting ==
  /\ [][\A j \in Closures : OpenaiOpen18(j) =>
          openaiSent' = <<SessionConfig18>>]_vars
  /\ [][\A j \in Closures :
          (/\ OnResponseDone18(j)
           /\ ~closures[j].greetingResponseDone
           /\ closures[j].state = "open") =>
            openaiSent' = <<VadUpdate18>>]_vars
  /\ [][VadArmed(openaiSent') =>
          \E j \in Closures :
            /\ ~closures[j].greetingResponseDone
            /\ (closures[j].greetingResponseDone)'
            /\ closures[j].greetingSent]_vars
  /\ [][\A j \in Closures :
          closures[j].greetingResponseDone =>
            (closures[j].greetingResponseDone)']_vars

\* C21: when the backend socket of a running call errors or closes, the
\* call is torn down: after the step the telephony socket is closed and the
\* stream id is not in the session registry.
C21_BackendLossTearsDown ==
  [][\A j \in Closures : (OpenaiDown18(j) /\ closures[j].state = "open") =>
       /\ ~twilioOpen'
       /\ streamSid \notin activeSessions']_vars

(***************************************************************************)
(* SpecSeg: the text handlers of v11 on an open call with external         *)
(* synthesis, driven with every short delta over a five-character          *)
(* alphabet and with the two deltas of the documented example.             *)
(***************************************************************************)
\* U+00A0, the no-break space: white space to trim() and to \s
NoBreakSpace == " "

SegAlphabet == {"a", " ", NoBreakSpace, ".", "?", "!"}

SegDeltas == UNION {[1..k -> SegAlphabet] : k \in 1..MaxDelta}

Hello1 == <<"H", "e", "l", "l", "o", " ", "t", "h", "e", "r", "e", ".", " ", "H", "o", "w", " ", "a", "r", "e">>

Hello2 == <<" ", "y", "o", "u", "?">>

HelloThere == <<"H", "e", "l", "l", "o", " ", "t", "h", "e", "r", "e", ".">>

HowAre == <<"H", "o", "w", " ", "a", "r", "e">>

HowAreYou == <<"H", "o", "w", " ", "a", "r", "e", " ", "y", "o", "u", "?">>

\* a call of v11 with external synthesis whose backend socket has opened and
\* whose start handler has resumed
InitSeg ==
  /\ USE_ELEVENLABS = TRUE
  /\ twilioState = "open"
  /\ streamSid = StreamId
  /\ openaiWs = 1
  /\ closures = <<[NewClosure(StreamId, CallId, FALSE)
                     EXCEPT !.state = "open",
                            !.receiving = TRUE,
                            !.greetingTimer = TRUE]>>
  /\ activeSessions = {StreamId}
  /\ transcription = <<>>
  /\ telephonyStopped = FALSE
  /\ twilioSent = <<>> /\ openaiSent = <<>> /\ httpSent = <<>>
  /\ emitted = <<>>
  /\ ttsFailed = FALSE
  /\ scriptFetch = "idle"
  /\ scriptAttempts = 0
  /\ savesPending = 0
  /\ saveOutcome = NoSave
  /\ cancelSent = "none"
  /\ spoken = <<>>
  /\ sinceStart = MaxEventsBeforeRestart + 1
  /\ utterance = <<>>
  /\ verdict = <<>>

\* SpecSeg follows the text of one response: deltas, then response.text.done
Seg_TextDelta ==
  \E d \in SegDeltas :
    /\ transcription = <<>>
    /\ Len(pendingTextResponse) + Len(d) <= MaxSegBuf
    /\ nEmitted < MaxSentences
    /\ turnCount < MaxTurns
    /\ OnTextDelta11(Latest, d)
    /\ Frame
    /\ Quiet
    /\ NoTtsReturn

\* the documented example: "Hello there. How are", then " you?"
Seg_Example ==
  /\ nEmitted < MaxSentences
  /\ turnCount < MaxTurns
  /\ transcription = <<>>
  /\ \/ pendingTextResponse = <<>> /\ OnTextDelta11(Latest, Hello1)
     \/ sentenceBuffer = HowAre /\ OnTextDelta11(Latest, Hello2)
  /\ Frame
  /\ Quiet
  /\ NoTtsReturn

Seg_TextDone ==
  /\ nEmitted < MaxSentences
  /\ turnCount < MaxTurns
  /\ Len(transcription) < MaxTranscript
  /\ OnTextDone11(Latest)
  /\ Frame
  /\ Quiet
  /\ NoTtsReturn

Seg_TtsReturn ==
  \E r \in inflight : TtsReturn11(Latest, r) /\ Frame /\ Quiet

NextSeg ==
  \/ Seg_TextDelta
  \/ Seg_Example
  \/ Seg_TextDone
  \/ Seg_TtsReturn

SpecSeg == InitSeg /\ [][NextSeg]_vars

(***************************************************************************)
(* Claims checked under SpecSeg.                                           *)
(***************************************************************************)
\* C9: after every text delta no complete sentence is left in the buffer
\* (every complete sentence has been emitted) and the retained remainder
\* holds no terminal punctuation.
C9_AllSentencesEmitted ==
  /\ SentenceMatch(sentenceBuffer) = 0
  /\ FirstTerminal(sentenceBuffer) = 0

\* C10: "Hello there. How are" emits "Hello there." and retains "How are";
\* " you?" then emits "How are you?".  In general a retained fragment without
\* terminal punctuation stays in the buffer, nothing emitted, until a delta
\* brings the terminal mark, and that delta emits the whole sentence once.
C10_SplitSentence ==
  [][/\ (pendingTextResponse = <<>> /\ OnTextDelta11(Latest, Hello1)) =>
          (emitted' = <<HelloThere>> /\ sentenceBuffer' = HowAre)
     /\ (sentenceBuffer = HowAre /\ OnTextDelta11(Latest, Hello2)) =>
          (emitted' = <<HowAreYou>> /\ sentenceBuffer' = <<>>)
     /\ \A d \in SegDeltas :
          (/\ OnTextDelta11(Latest, d)
           /\ sentenceBuffer # <<>>
           /\ FirstTerminal(sentenceBuffer) = 0) =>
            IF FirstTerminal(d) = 0
              THEN /\ emitted' = <<>>
                   /\ sentenceBuffer' = sentenceBuffer \o d
              ELSE emitted' =
                     <<Trim(sentenceBuffer \o SubSeq(d, 1, FirstTerminal(d)))>>
    ]_vars

\* C10 witness: both deltas of the example have been handled
C10_Witness ==
  /\ emitted = <<HowAreYou>>
  /\ sentenceBuffer = <<>>
  /\ pendingTextResponse = Hello1 \o Hello2
  /\ nEmitted = 2

\* C11: response.text.done with a non-blank trailing fragment enqueues the
\* trimmed fragment as one more sentence and empties the buffer; and no
\* sentence that is empty or only whitespace is ever emitted, queued or in
\* synthesis, whether it comes from a delta or from the flush.
C11_FlushNoBlank ==
  /\ [][OnTextDone11(Latest) =>
          /\ sentenceBuffer' = <<>>
          /\ Trim(sentenceBuffer) # <<>> =>
               /\ emitted' = <<Trim(sentenceBuffer)>>
               /\ nEmitted' = nEmitted + 1
               /\ \/ /\ sentenceQueue' # <<>>
                     /\ sentenceQueue'[Len(sentenceQueue')] =
                          [text |-> Trim(sentenceBuffer), n |-> nEmitted']
                  \/ \E r \in inflight' :
                       r.text = Trim(sentenceBuffer) /\ r.n = nEmitted'
          /\ Trim(sentenceBuffer) = <<>> =>
               emitted' = <<>> /\ nEmitted' = nEmitted]_vars
  /\ [](/\ \A i \in 1..Len(emitted) : Trim(emitted[i]) # <<>>
        /\ \A i \in 1..Len(sentenceQueue) : Trim(sentenceQueue[i].text) # <<>>
        /\ \A r \in inflight : Trim(r.text) # <<>>)

\* C11 witness: a fragment without terminal punctuation, with blanks around
\* it in the buffer, has just been flushed by response.text.done
C11_Witness ==
  /\ emitted # <<>>
  /\ FirstTerminal(emitted[1]) = 0
  /\ sentenceBuffer = <<>>
  /\ pendingTextResponse = <<>>
  /\ transcription # <<>>
  /\ Len(transcription[1].text) > Len(emitted[1])
  /\ FirstTerminal(transcription[1].text) = 0

(***************************************************************************)
(* SpecSegLive: SpecSeg in which every synthesis call returns.  No         *)
(* speech_started event occurs in SpecSeg, so nothing is cancelled.        *)
(***************************************************************************)
SpecSegLive == SpecSeg /\ WF_vars(Seg_TtsReturn)

\* the consumer is idle with nothing queued and the turn is handed over
TurnHandedOver ==
  /\ ~isProcessingSentence
  /\ sentenceQueue = <<>>
  /\ inflight = {}
  /\ ~isAISpeaking
  /\ waitingForUserResponse

\* C13: if every synthesis call returns and nothing is cancelled, a busy
\* consumer eventually drains the queue and the call is then in the state
\* 'AI not speaking, waiting for the caller'; the step in which the last
\* sentence's call returns is the step that sets both flags.
C13_DrainHandsOverTurn ==
  /\ [][\A r \in inflight : (TtsReturn11(Latest, r) /\ sentenceQueue = <<>>) =>
          TurnHandedOver']_vars
  /\ isProcessingSentence ~> TurnHandedOver

\* C13 witness: the turn was handed over after two sentences of one response,
\* the second queued behind the first, were spoken
C13_Witness ==
  /\ TurnHandedOver
  /\ nEmitted = 2
  /\ lastSynth = 2
  /\ pendingTextResponse # <<>>

(***************************************************************************)
(* SpecCancel: the text path of v11 on an open call with external          *)
(* synthesis, with an observer of the response.cancel requests.  Between   *)
(* a cancel request and the next response.created or response.text.done    *)
(* the text the backend still streams belongs to the cancelled response.   *)
(***************************************************************************)
Frame11Base == UNCHANGED <<USE_ELEVENLABS, classifyVars, httpVars,
                            restartVars>>

Cnc_TextDelta ==
  \E d \in Deltas11 :
    /\ Len(pendingTextResponse) + Len(d) <= MaxSegBuf
    /\ nEmitted < MaxSentences
    /\ turnCount < MaxTurns
    /\ OnTextDelta11(Latest, d)
    /\ cancelSent' = IF cancelSent = "none" /\ openaiSent' = <<"response.cancel">>
                       THEN "question"
                       ELSE cancelSent
    /\ UNCHANGED spoken
    /\ Frame11Base
    /\ NoTtsReturn

Cnc_TextDone ==
  /\ nEmitted < MaxSentences
  /\ turnCount < MaxTurns
  /\ Len(transcription) < MaxTranscript
  /\ OnTextDone11(Latest)
  /\ cancelSent' = "none"
  /\ UNCHANGED spoken
  /\ Frame11Base
  /\ NoTtsReturn

Cnc_SpeechStarted ==
  /\ OnSpeechStarted11(Latest)
  /\ cancelSent' = IF isAISpeaking THEN "barge-in" ELSE cancelSent
  /\ UNCHANGED spoken
  /\ Frame11Base
  /\ NoTtsReturn

Cnc_ResponseCreated ==
  /\ OnResponseCreated11(Latest)
  /\ cancelSent' = IF openaiSent' = <<"response.cancel">>
                     THEN "unsolicited"
                     ELSE "none"
  /\ UNCHANGED spoken
  /\ Frame11Base
  /\ NoTtsReturn

NextCancel ==
  \/ Cnc_TextDelta
  \/ Cnc_TextDone
  \/ Cnc_SpeechStarted
  \/ Cnc_ResponseCreated
  \/ V11_ResponseDone
  \/ V11_TtsReturn

SpecCancel == InitSeg /\ [][NextCancel]_vars

(***************************************************************************)
(* Claims checked under SpecCancel.                                        *)
(***************************************************************************)
\* C31: after a barge-in no sentence of the cancelled response is handed to
\* the synthesizer: while the cancelled response is the one being streamed,
\* text deltas and the text-done flush that arrive after the cancel request
\* included, no synthesis call is started.
C31_NoSynthesisAfterBargeIn ==
  [][cancelSent = "barge-in" =>
       lastSynth' = lastSynth]_vars

\* C38: the step that enqueues a sentence containing a question mark sends
\* a response.cancel, and from then on no further sentence of that response
\* is enqueued: not from a text delta and not from the text-done flush that
\* arrive after the cancel request.
C38_QuestionEndsResponse ==
  /\ [][(\E d \in Deltas11 : OnTextDelta11(Latest, d)) =>
          ((\E i \in 1..Len(emitted') : Includes(emitted'[i], "?")) =>
             openaiSent' = <<"response.cancel">>)]_vars
  /\ [][cancelSent = "question" => emitted' = <<>>]_vars

(***************************************************************************)
(* Claims about the speaking flag and the turn flags, checked under        *)
(* SpecV11.                                                                *)
(***************************************************************************)
\* C33: with external synthesis isAISpeaking is true whenever a sentence
\* that no barge-in has interrupted is in synthesis or a sentence waits in
\* the queue, so that a speech_started handled then takes the barge-in path.
C33_SpeakingWhileSentencesPending ==
  \A j \in Closures :
    (/\ closures[j].useElevenLabs
     /\ \/ \E r \in closures[j].inflight : ~r.barged
        \/ closures[j].sentenceQueue # <<>>) => closures[j].isAISpeaking

\* C36: a response.created handled after a speech_started that followed the
\* previous response.created is never answered with a response.cancel: the
\* response is let through and the turn flag of the caller is reset,
\* whatever playback-finished, transcript and response events came between.
C36_ResponseAfterSpeechNotBlocked ==
  /\ [][\A j \in Closures :
          (OnResponseCreated11(j) /\ closures[j].spokeSinceTurn) =>
            /\ openaiSent' = <<>>
            /\ ~(closures[j].userHasSpoken)']_vars
  /\ [](\A j \in Closures :
          closures[j].spokeSinceTurn => closures[j].userHasSpoken)

\* C36 witness: the caller spoke, playback finished after that and at least
\* one turn was complete, so that only the caller's speech kept the block
\* from applying; the response.created that followed was let through
C36_Witness ==
  /\ callerSpeaking
  /\ ~spokeSinceTurn
  /\ ~userHasSpoken
  /\ waitingForUserResponse
  /\ turnCount > 0
  /\ openaiSent = <<>>

(***************************************************************************)
(* SpecStream: the text of one response of v11, every split into short     *)
(* deltas of every text of up to MaxStream characters, with an observer    *)
(* of the sentences the two text handlers pass to queueSentence.           *)
(***************************************************************************)
Str_TextDelta ==
  \E d \in SegDeltas :
    /\ transcription = <<>>
    /\ Len(pendingTextResponse) + Len(d) <= MaxStream
    /\ nEmitted < MaxSentences
    /\ turnCount < MaxTurns
    /\ OnTextDelta11(Latest, d)
    /\ spoken' = spoken \o emitted'
    /\ UNCHANGED cancelSent
    /\ Frame11Base
    /\ NoTtsReturn

Str_TextDone ==
  /\ nEmitted < MaxSentences
  /\ turnCount < MaxTurns
  /\ Len(transcription) < MaxTranscript
  /\ OnTextDone11(Latest)
  /\ spoken' = spoken \o emitted'
  /\ UNCHANGED cancelSent
  /\ Frame11Base
  /\ NoTtsReturn

NextStream ==
  \/ Str_TextDelta
  \/ Str_TextDone
  \/ V11_TtsReturn

SpecStream == InitSeg /\ [][NextStream]_vars

(***************************************************************************)
(* Claims checked under SpecStream.                                        *)
(***************************************************************************)
\* the words of a text: maximal runs without whitespace, a run also ending
\* after a terminal punctuation mark, where a sentence may end
RECURSIVE TokensFrom(_, _, _)
TokensFrom(s, cur, acc) ==
  IF s = <<>>
    THEN IF cur = <<>> THEN acc ELSE Append(acc, cur)
    ELSE IF Head(s) \in Whitespace
      THEN TokensFrom(Tail(s), <<>>,
                      IF cur = <<>> THEN acc ELSE Append(acc, cur))
      ELSE IF Head(s) \in Terminals
        THEN TokensFrom(Tail(s), <<>>, Append(acc, Append(cur, Head(s))))
        ELSE TokensFrom(Tail(s), Append(cur, Head(s)), acc)

Tokens(s) == TokensFrom(s, <<>>, <<>>)

\* the words of a sequence of sentences, in order
RECURSIVE TokensOfAll(_)
TokensOfAll(sentences) ==
  IF sentences = <<>>
    THEN <<>>
    ELSE Tokens(Head(sentences)) \o TokensOfAll(Tail(sentences))

\* C37: segmentation loses no text.  For every split of a response without
\* a question mark into deltas, the sentences passed on so far followed by
\* the retained fragment hold the words of the streamed text, in order: no
\* character that is not whitespace is dropped and no two words separated by
\* whitespace are merged; after response.text.done the sentences alone do.
C37_NoTextLost ==
  /\ (transcription = <<>> /\ ~Includes(pendingTextResponse, "?")) =>
       TokensOfAll(spoken) \o Tokens(sentenceBuffer) =
         Tokens(pendingTextResponse)
  /\ (transcription # <<>> /\ ~Includes(transcription[1].text, "?")) =>
       /\ sentenceBuffer = <<>>
       /\ TokensOfAll(spoken) = Tokens(transcription[1].text)

====
